---- MODULE Spec2Model ----
(***************************************************************************)
(* A model of the recipe backend's core:                                   *)
(*   - LLMService._invoke_model_with_retry / _invoke_model                 *)
(*     (backend/services/llm_service.py): the retrying model invoker;      *)
(*   - SupabaseService.match_recipes_with_inventory                        *)
(*     (backend/services/supabase_service.py): the match classifier;       *)
(*   - SupabaseService.add_item / remove_item / get_inventory /            *)
(*     save_inventory: the read-modify-write inventory operations;         *)
(*   - LLMService._parse_recipe_response: the response parser;             *)
(*   - LLMService.generate_recipe under the POST /api/recipes/generate     *)
(*     route (backend/routes/recipes.py);                                  *)
(*   - VectorSearchService.generate_embedding and its lru_cache            *)
(*     (backend/services/vector_search_service.py).                        *)
(* Each component has its own specification (SpecRetry, SpecMatch,         *)
(* SpecInventory, SpecParse, SpecGenerate, SpecCache); the variables of    *)
(* the other components stay at their idle values.                         *)
(***************************************************************************)
EXTENDS Integers, Sequences, FiniteSets, TLC

VARIABLES
    \* ---- LLMService: configuration and one _invoke_model_with_retry call
    max_retries,          \* self.max_retries
    initial_retry_delay,  \* self.initial_retry_delay (in delay units)
    prompt,               \* the prompt argument, a sequence of characters
    max_tokens,           \* the max_tokens argument
    temperature,          \* the temperature argument, in tenths (7 = 0.7)
    attempt,              \* the loop variable of the retry loop
    last_error,           \* the local last_error
    invoke_pc,            \* "calling" | "sleeping" | "returned" | "raised"
    calls,                \* per self.llm.complete call, in order: "ok", or how
                          \* _invoke_model classified the exception it raised
    last_call,            \* the latest self.llm.complete call: what it returned
                          \* or the message of what it raised
    sleeps,               \* the delay of each asyncio.sleep, in order
    raised,               \* the exception the call raised, or None
    response_text,        \* the text the call returned, or None
    \* ---- SupabaseService.match_recipes_with_inventory
    match_inventory,      \* the record get_inventory returns (or None)
    all_recipes,          \* the list list_recipes returns
    recipe_index,         \* how many recipes the for loop has classified
    exact_matches,        \* the local exact_matches
    partial_matches,      \* the local partial_matches
    match_pc,             \* "start" | "loop" | "returned" | "raised"
    list_calls,           \* number of list_recipes calls made
    \* ---- SupabaseService inventory operations, one call per task
    stored,               \* the user's row of the inventory table (or None)
    clock,                \* datetime.now(timezone.utc), a tick counter
    op,                   \* per task: the call it makes
    inv_pc,               \* per task: "idle" | "read" | "done" | "failed"
    local,                \* per task: the UserInventory it read
    saves,                \* the records written by save_inventory, in order
    \* ---- LLMService._parse_recipe_response
    parsed,               \* the calls made so far: the text and the outcome
    uuid_count,           \* how many uuids uuid.uuid4() has produced
    utcnow,               \* datetime.utcnow(), a tick counter
    \* ---- LLMService.generate_recipe and the generate route
    caller,               \* who calls generate_recipe: "route" | "direct"
    gen_ingredients,      \* the ingredients of the request
    gen_pc,               \* "request" | "invoking" | "returned" | "raised" |
                          \* "responded"
    gen_raised,           \* the exception generate_recipe raised
    http_status,          \* the status code of the route's response, 0 before
    \* ---- VectorSearchService.generate_embedding and its lru_cache
    cache,                \* the entries of the cache, least recently used first
    embeds,               \* the calls made so far, in order
    encode_calls,         \* how many times the encoder was invoked
    \* ---- POST /api/recipes/search
    recipe_table,         \* the ids of the rows of the recipes table
    search_results,       \* what vector_search_service.search_recipes returned
    search_index,         \* how many results the for loop has handled
    recipes,              \* the list the handler builds
    get_recipe_calls,     \* the ids get_recipe was called with, in order
    search_pc,            \* "idle" | "start" | "loop" | "responded"
    search_raised,        \* the exception the handler caught
    search_response       \* status_code, data and meta.count of the response

retryVars == <<max_retries, initial_retry_delay, prompt, max_tokens, temperature,
               attempt, last_error, invoke_pc, calls, last_call, sleeps, raised,
               response_text>>
matchVars == <<match_inventory, all_recipes, recipe_index, exact_matches,
               partial_matches, match_pc, list_calls>>
invVars   == <<stored, clock, op, inv_pc, local, saves>>
parseVars == <<parsed, uuid_count, utcnow>>
genVars   == <<caller, gen_ingredients, gen_pc, gen_raised, http_status>>
cacheVars == <<cache, embeds, encode_calls>>
searchVars == <<recipe_table, search_results, search_index, recipes, get_recipe_calls,
                search_pc, search_raised, search_response>>
vars      == <<retryVars, matchVars, invVars, parseVars, genVars, cacheVars, searchVars>>

None == "None"
\* "no exception": the value of last_error and raised before any failure.
NoError == [type |-> "None", msg |-> <<>>]
\* Optional[UserInventory]: get_inventory returns None when the table has no
\* row for the user, and the UserInventory built from the row otherwise.
NoInventory == [found |-> FALSE, items |-> <<>>, updated_at |-> 0]
UserInventory(items, updated_at) ==
    [found |-> TRUE, items |-> items, updated_at |-> updated_at]

\* ---------------------------------------------------------------- bounds
MaxRetries == 3      \* max_retries ranges over -1..MaxRetries
MaxDelay   == 2      \* initial_retry_delay ranges over 1..MaxDelay
MaxRecipes == 2      \* list_recipes returns at most MaxRecipes recipes
NumTasks   == 2      \* concurrent add_item / remove_item calls
MaxParses  == 2      \* _parse_recipe_response calls in one behaviour
MaxEmbedCalls == 4   \* generate_embedding / clear_embedding_cache calls
CacheMaxSize  == 2   \* the capacity of the embedding cache (maxsize)
MaxResults    == 3   \* search_recipes returns at most MaxResults results

(***************************************************************************)
(* Strings.  An error message is a sequence of words and an ingredient     *)
(* name is one word; str.lower() maps each word to its lower-case form and *)
(* `kw in msg` looks for the keyword inside the words.                     *)
(***************************************************************************)
LowerWord(w) ==
    CASE w = "Timeout"        -> "timeout"
      [] w = "Timed out"      -> "timed out"
      [] w = "Connection"     -> "connection"
      [] w = "Network"        -> "network"
      [] w = "Rate limit"     -> "rate limit"
      [] w = "Throttled"      -> "throttled"
      [] w = "Authentication" -> "authentication"
      [] w = "Unauthorized"   -> "unauthorized"
      [] w = "Request"        -> "request"
      [] w = "Internal"       -> "internal"
      [] w = "LLM"            -> "llm"
      [] w = "Hugging Face"   -> "hugging face"
      [] w = "API"            -> "api"
      [] w = "Unexpected"     -> "unexpected"
      [] w = "Tomato"         -> "tomato"
      [] w = "Easy"           -> "easy"
      [] w = "Super-Hard"     -> "super-hard"
      [] OTHER                -> w

LowerStr(s) == [i \in DOMAIN s |-> LowerWord(s[i])]

\* The keywords that occur inside a (lower-case) word.
Substrings(w) ==
    CASE w = "throttled"  -> {"throttled", "throttl"}
      [] w = "throttling" -> {"throttling", "throttl"}
      [] OTHER            -> {w}

Contains(kw, s) == \E i \in DOMAIN s : kw \in Substrings(s[i])

\* What self.llm.complete may raise: str(e) of the upstream exception.
UpstreamMessages ==
    { <<"Request", "timed out">>,
      <<"Read", "Timeout">>,
      <<"Connection", "failed">>,
      <<"Network", "unreachable">>,
      <<"Rate limit", "exceeded">>,
      <<"Request", "Throttled">>,
      <<"Authentication", "failed">>,
      <<"Unauthorized">>,
      <<"Internal", "error">>,
      <<"Connection", "timed out">>,
      <<"Unauthorized", "throttling">> }

\* What self.llm.complete may return.
Completions == {"text1", "text2", "text3"}

\* Mutant: the authentication keywords are tried before the rate-limit ones.
ErrorKind_AuthFirst(msg) ==
    LET error_msg == LowerStr(msg) IN
    IF Contains("timeout", error_msg) \/ Contains("timed out", error_msg)
    THEN "Timeout"
    ELSE IF Contains("connection", error_msg) \/ Contains("network", error_msg)
    THEN "ConnectionFailure"
    ELSE IF Contains("authentication", error_msg) \/ Contains("unauthorized", error_msg)
    THEN "AuthFailure"
    ELSE IF Contains("rate limit", error_msg) \/ Contains("throttl", error_msg)
    THEN "RateLimited"
    ELSE "InvocationFailure"

\* The branch the except clause of _invoke_model takes for an upstream
\* exception whose str() is msg: the keywords are tried in this order.
ErrorKind(msg) ==
    LET error_msg == LowerStr(msg) IN
    IF Contains("timeout", error_msg) \/ Contains("timed out", error_msg)
    THEN "Timeout"
    ELSE IF Contains("connection", error_msg) \/ Contains("network", error_msg)
    THEN "ConnectionFailure"
    ELSE IF Contains("rate limit", error_msg) \/ Contains("throttl", error_msg)
    THEN "RateLimited"
    ELSE IF Contains("authentication", error_msg) \/ Contains("unauthorized", error_msg)
    THEN "AuthFailure"
    ELSE "InvocationFailure"

\* The exception each branch raises: its type and its message, which ends
\* with str(e) of the upstream exception.
WrapError(kind, msg) ==
    CASE kind = "Timeout" ->
           [type |-> "TimeoutError",
            msg  |-> <<"LLM", "request", "timed out", "after">> \o msg]
      [] kind = "ConnectionFailure" ->
           [type |-> "ConnectionError",
            msg  |-> <<"Network", "error", "connecting", "to", "Hugging Face">> \o msg]
      [] kind = "RateLimited" ->
           [type |-> "RuntimeError",
            msg  |-> <<"Hugging Face", "API", "rate limit", "exceeded">> \o msg]
      [] kind = "AuthFailure" ->
           [type |-> "RuntimeError",
            msg  |-> <<"Hugging Face", "authentication", "failed">> \o msg]
      [] OTHER ->
           [type |-> "RuntimeError",
            msg  |-> <<"Unexpected", "error", "invoking", "LLM">> \o msg]

\* The exception _invoke_model raises when self.llm.complete raises msg.
ClassifyError(msg) == WrapError(ErrorKind(msg), msg)

\* Mutant: every RuntimeError is taken for a rate limit.
IsRetryable_AnyRuntimeError(error) ==
    error.type \in {"TimeoutError", "ConnectionError", "RuntimeError"}

_is_retryable_error(error) ==
    IF error.type \in {"TimeoutError", "ConnectionError"}
    THEN TRUE
    ELSE IF error.type = "RuntimeError"
              /\ LET error_msg == LowerStr(error.msg) IN
                 Contains("rate limit", error_msg) \/ Contains("throttl", error_msg)
    THEN TRUE
    ELSE FALSE

\* str.strip(): drop the leading and the trailing blanks.
RECURSIVE LStrip(_)
LStrip(s) == IF s # <<>> /\ Head(s) = " " THEN LStrip(Tail(s)) ELSE s
RECURSIVE RStrip(_)
RStrip(s) == IF s # <<>> /\ s[Len(s)] = " " THEN RStrip(SubSeq(s, 1, Len(s) - 1)) ELSE s
Strip(s) == RStrip(LStrip(s))

\* Mutant: the prompt is not trimmed before the emptiness test.
ValidateInputs_NoStrip(p, temp, tokens) ==
    IF p = <<>>
    THEN [type |-> "ValueError", msg |-> <<"Prompt cannot be empty">>]
    ELSE IF ~(0 <= temp /\ temp <= 10)
    THEN [type |-> "ValueError", msg |-> <<"Temperature must be between 0 and 1">>]
    ELSE IF tokens < 1
    THEN [type |-> "ValueError", msg |-> <<"max_tokens must be positive">>]
    ELSE NoError

\* The input validation of _invoke_model: the ValueError it raises, or None.
ValidateInputs(p, temp, tokens) ==
    IF p = <<>> \/ Strip(p) = <<>>
    THEN [type |-> "ValueError", msg |-> <<"Prompt cannot be empty">>]
    ELSE IF ~(0 <= temp /\ temp <= 10)
    THEN [type |-> "ValueError", msg |-> <<"Temperature must be between 0 and 1">>]
    ELSE IF tokens < 1
    THEN [type |-> "ValueError", msg |-> <<"max_tokens must be positive">>]
    ELSE NoError

RECURSIVE Pow2(_)
Pow2(n) == IF n <= 0 THEN 1 ELSE 2 * Pow2(n - 1)

\* Mutant: the delay grows linearly with the attempt index.
BackoffDelay_Linear(initial, k) == initial * (k + 1)

\* delay = self.initial_retry_delay * (2 ** attempt)
BackoffDelay(initial, k) == initial * Pow2(k)

\* Whether the except clause of the retry loop catches the exception.
Caught(e) == e.type \in {"TimeoutError", "ConnectionError", "RuntimeError"}

\* Mutant: the retry budget is one attempt short.
IsLastAttempt_OffByOne(k, n) == k >= n - 1

\* Mutant: the last attempt is not recognised, the loop sleeps and runs out.
IsLastAttempt_Never(k, n) == k > n

\* `if attempt >= self.max_retries: raise`
IsLastAttempt(k, n) == k >= n

Prompts      == { <<>>, <<" ">>, <<" ", " ">>, <<"x">>, <<" ", "x", " ">> }
Temperatures == { -1, 0, 7, 10, 11 }
TokenCounts  == { -1, 0, 1, 2048 }

RetryIdle ==
    /\ max_retries = 0 /\ initial_retry_delay = 0 /\ prompt = <<>>
    /\ max_tokens = 0 /\ temperature = 0 /\ attempt = 0 /\ last_error = NoError
    /\ invoke_pc = "idle" /\ calls = <<>> /\ last_call = NoError /\ sleeps = <<>>
    /\ raised = NoError /\ response_text = None

RetryStart ==
    /\ max_retries \in -1..MaxRetries
    /\ initial_retry_delay \in 1..MaxDelay
    /\ prompt \in Prompts
    /\ max_tokens \in TokenCounts
    /\ temperature \in Temperatures
    /\ attempt = 0
    /\ last_error = NoError
    /\ invoke_pc = "calling"
    /\ calls = <<>>
    /\ last_call = NoError
    /\ sleeps = <<>>
    /\ raised = NoError
    /\ response_text = None

\* Mutant: the first error of the call is kept and raised in place of the last.
HandleException_FirstError(e) ==
    LET first == IF last_error = NoError THEN e ELSE last_error IN
    IF Caught(e)
    THEN /\ last_error' = first
         /\ IF ~_is_retryable_error(e)
            THEN /\ raised' = first /\ invoke_pc' = "raised" /\ sleeps' = sleeps
            ELSE IF IsLastAttempt(attempt, max_retries)
            THEN /\ raised' = first /\ invoke_pc' = "raised" /\ sleeps' = sleeps
            ELSE /\ raised' = raised /\ invoke_pc' = "sleeping"
                 /\ sleeps' = Append(sleeps, BackoffDelay(initial_retry_delay, attempt))
    ELSE /\ raised' = e /\ invoke_pc' = "raised"
         /\ UNCHANGED <<last_error, sleeps>>

\* The except clause of the retry loop, entered with exception e on iteration
\* `attempt`; an exception it does not catch propagates to the caller.
HandleException(e) ==
    IF Caught(e)
    THEN /\ last_error' = e
         /\ IF ~_is_retryable_error(e)
            THEN /\ raised' = e /\ invoke_pc' = "raised" /\ sleeps' = sleeps
            ELSE IF IsLastAttempt(attempt, max_retries)
            THEN /\ raised' = e /\ invoke_pc' = "raised" /\ sleeps' = sleeps
            ELSE /\ raised' = raised /\ invoke_pc' = "sleeping"
                 /\ sleeps' = Append(sleeps, BackoffDelay(initial_retry_delay, attempt))
    ELSE /\ raised' = e /\ invoke_pc' = "raised"
         /\ UNCHANGED <<last_error, sleeps>>

\* The retry loop is exhausted without a return or a raise: the code after it.
LoopFallthrough ==
    /\ invoke_pc = "calling"
    /\ attempt > max_retries
    /\ raised' = IF last_error # NoError
                 THEN last_error
                 ELSE [type |-> "RuntimeError",
                       msg  |-> <<"Unexpected", "error", "in", "retry", "logic">>]
    /\ invoke_pc' = "raised"
    /\ UNCHANGED <<max_retries, initial_retry_delay, prompt, max_tokens, temperature,
                   attempt, last_error, calls, last_call, sleeps, response_text>>
    /\ UNCHANGED <<matchVars, invVars, parseVars, genVars, cacheVars, searchVars>>

\* One iteration of the retry loop whose _invoke_model call fails validation:
\* self.llm.complete is not called.
AttemptInvalid ==
    /\ invoke_pc = "calling"
    /\ attempt <= max_retries
    /\ ValidateInputs(prompt, temperature, max_tokens) # NoError
    /\ HandleException(ValidateInputs(prompt, temperature, max_tokens))
    /\ UNCHANGED <<max_retries, initial_retry_delay, prompt, max_tokens, temperature,
                   attempt, calls, last_call, response_text>>
    /\ UNCHANGED <<matchVars, invVars, parseVars, genVars, cacheVars, searchVars>>

\* Mutant: the loop sleeps once more after the completion has come back.
AttemptSucceeds_ThenSleeps ==
    /\ invoke_pc = "calling"
    /\ attempt <= max_retries
    /\ ValidateInputs(prompt, temperature, max_tokens) = NoError
    /\ \E text \in Completions :
          /\ calls' = Append(calls, "ok")
          /\ last_call' = [type |-> "ok", msg |-> <<text>>]
          /\ response_text' = text
    /\ sleeps' = Append(sleeps, BackoffDelay(initial_retry_delay, attempt))
    /\ invoke_pc' = "returned"
    /\ UNCHANGED <<max_retries, initial_retry_delay, prompt, max_tokens, temperature,
                   attempt, last_error, raised>>
    /\ UNCHANGED <<matchVars, invVars, parseVars, genVars, cacheVars, searchVars>>

\* One iteration whose self.llm.complete call returns a completion.
AttemptSucceeds ==
    /\ invoke_pc = "calling"
    /\ attempt <= max_retries
    /\ ValidateInputs(prompt, temperature, max_tokens) = NoError
    /\ \E text \in Completions :
          /\ calls' = Append(calls, "ok")
          /\ last_call' = [type |-> "ok", msg |-> <<text>>]
          /\ response_text' = text
    /\ invoke_pc' = "returned"
    /\ UNCHANGED <<max_retries, initial_retry_delay, prompt, max_tokens, temperature,
                   attempt, last_error, sleeps, raised>>
    /\ UNCHANGED <<matchVars, invVars, parseVars, genVars, cacheVars, searchVars>>

\* One iteration whose self.llm.complete call raises: _invoke_model wraps the
\* exception by its message and the except clause of the loop handles it.
AttemptFails ==
    /\ invoke_pc = "calling"
    /\ attempt <= max_retries
    /\ ValidateInputs(prompt, temperature, max_tokens) = NoError
    /\ \E msg \in UpstreamMessages :
          /\ calls' = Append(calls, ErrorKind(msg))
          /\ last_call' = [type |-> "raise", msg |-> msg]
          /\ HandleException(ClassifyError(msg))
    /\ UNCHANGED <<max_retries, initial_retry_delay, prompt, max_tokens, temperature,
                   attempt, response_text>>
    /\ UNCHANGED <<matchVars, invVars, parseVars, genVars, cacheVars, searchVars>>

\* asyncio.sleep(delay) is over: the loop goes to its next iteration.
WakeUp ==
    /\ invoke_pc = "sleeping"
    /\ attempt' = attempt + 1
    /\ invoke_pc' = "calling"
    /\ UNCHANGED <<max_retries, initial_retry_delay, prompt, max_tokens, temperature,
                   last_error, calls, last_call, sleeps, raised, response_text>>
    /\ UNCHANGED <<matchVars, invVars, parseVars, genVars, cacheVars, searchVars>>

(***************************************************************************)
(* SupabaseService.match_recipes_with_inventory                            *)
(***************************************************************************)
\* The first n elements of a sequence.
Prefix(s, n) == SubSeq(s, 1, n)

\* The ingredient names of the stored recipes: the tomato is absent, written
\* once, or written twice with different case.
IngredientLists ==
    { t \o Prefix(<<"onion", "garlic", "basil", "oil">>, n) :
        t \in { <<>>, <<"tomato">>, <<"Tomato", "tomato">> },
        n \in 0..4 }

\* The rows list_recipes may return: at most MaxRecipes recipes, their ids
\* distinct.
RecipeLists ==
    UNION { { [i \in 1..n |-> [id |-> i, ingredients |-> f[i]]] :
                f \in [1..n -> IngredientLists] } : n \in 0..MaxRecipes }

\* One InventoryItem per name of a set, in a fixed order.
RECURSIVE ItemsOf(_, _)
ItemsOf(order, S) ==
    IF order = <<>> THEN <<>>
    ELSE IF Head(order) \in S
         THEN <<[ingredient_name |-> Head(order), quantity |-> None, added_at |-> 0]>>
                  \o ItemsOf(Tail(order), S)
         ELSE ItemsOf(Tail(order), S)

\* The inventories get_inventory may return to the matcher: none, or a row
\* whose items have distinct names (ignoring case).
MatchInventories ==
    {NoInventory} \cup
    { UserInventory(ItemsOf(<<"Tomato", "onion", "garlic", "basil", "oil">>, S), 0) :
        S \in SUBSET {"Tomato", "onion", "garlic", "basil", "oil"} }

\* Mutant: the inventory names are compared as written.
InventoryIngredients_NoLower(inventory) ==
    { inventory.items[i].ingredient_name : i \in DOMAIN inventory.items }

\* inventory_ingredients = {item.ingredient_name.lower() for item in inventory.items}
InventoryIngredients(inventory) ==
    { LowerWord(inventory.items[i].ingredient_name) : i \in DOMAIN inventory.items }

\* Mutant: the recipe's names are counted as written.
RecipeIngredients_AsWritten(recipe) ==
    { recipe.ingredients[i] : i \in DOMAIN recipe.ingredients }

\* recipe_ingredients = {ing.name.lower() for ing in recipe.ingredients}
RecipeIngredients(recipe) ==
    { LowerWord(recipe.ingredients[i]) : i \in DOMAIN recipe.ingredients }

\* A float that is the quotient of two lengths, kept as the fraction.
ZeroDivisionError == [num |-> 0, den |-> 0]
Divide(a, b) == IF b = 0 THEN ZeroDivisionError ELSE [num |-> a, den |-> b]

\* Mutant: the quotient is taken without the guard for an empty recipe.
MatchPercentage_NoGuard(matching_ingredients, recipe_ingredients) ==
    Divide(Cardinality(matching_ingredients), Cardinality(recipe_ingredients))

\* len(matching_ingredients) / len(recipe_ingredients) if recipe_ingredients else 0
MatchPercentage(matching_ingredients, recipe_ingredients) ==
    IF recipe_ingredients # {}
    THEN Divide(Cardinality(matching_ingredients), Cardinality(recipe_ingredients))
    ELSE [num |-> 0, den |-> 1]

\* match_percentage == 1.0
IsExact(p) == p.num = p.den
\* Mutant: the threshold of a partial match is 0.75.
IsPartial_LowThreshold(p) == 4 * p.num >= 3 * p.den

\* match_percentage >= 0.8
IsPartial(p) == 5 * p.num >= 4 * p.den

\* Mutant: the difference is taken the other way round.
MissingIngredients_Swapped(recipe_ingredients, inventory_ingredients) ==
    inventory_ingredients \ recipe_ingredients

\* missing_ingredients = recipe_ingredients - inventory_ingredients
MissingIngredients(recipe_ingredients, inventory_ingredients) ==
    recipe_ingredients \ inventory_ingredients

\* list(a_set): the elements of the set, each once, in some order.
ListsOfSet(S) ==
    { f \in [1..Cardinality(S) -> S] : \A i, j \in DOMAIN f : f[i] = f[j] => i = j }

\* recipe.model_dump() with the two extra keys.
PartialMatch(recipe, missing, p) ==
    [id |-> recipe.id, ingredients |-> recipe.ingredients,
     missing_ingredients |-> missing, match_percentage |-> p]

MatchStart ==
    /\ match_inventory \in MatchInventories
    /\ all_recipes \in RecipeLists
    /\ recipe_index = 0
    /\ exact_matches = <<>>
    /\ partial_matches = <<>>
    /\ match_pc = "start"
    /\ list_calls = 0

\* get_inventory returned nothing, or an inventory without items: the early return.
MatchNoInventory ==
    /\ match_pc = "start"
    /\ (match_inventory = NoInventory \/ Len(match_inventory.items) = 0)
    /\ match_pc' = "returned"
    /\ UNCHANGED <<match_inventory, all_recipes, recipe_index, exact_matches,
                   partial_matches, list_calls>>
    /\ UNCHANGED <<retryVars, invVars, parseVars, genVars, cacheVars, searchVars>>

\* Mutant: list_recipes is called whatever get_inventory returned.
MatchListRecipes_Always ==
    /\ match_pc = "start"
    /\ list_calls' = list_calls + 1
    /\ match_pc' = "loop"
    /\ UNCHANGED <<match_inventory, all_recipes, recipe_index, exact_matches,
                   partial_matches>>
    /\ UNCHANGED <<retryVars, invVars, parseVars, genVars, cacheVars, searchVars>>

\* get_inventory returned items: list_recipes is called.
MatchListRecipes ==
    /\ match_pc = "start"
    /\ match_inventory # NoInventory
    /\ Len(match_inventory.items) # 0
    /\ list_calls' = list_calls + 1
    /\ match_pc' = "loop"
    /\ UNCHANGED <<match_inventory, all_recipes, recipe_index, exact_matches,
                   partial_matches>>
    /\ UNCHANGED <<retryVars, invVars, parseVars, genVars, cacheVars, searchVars>>

\* Mutant: a match is put at the front of its list.
ClassifyRecipe_Prepends ==
    /\ match_pc = "loop"
    /\ recipe_index < Len(all_recipes)
    /\ LET recipe                == all_recipes[recipe_index + 1]
           inventory_ingredients == InventoryIngredients(match_inventory)
           recipe_ingredients    == RecipeIngredients(recipe)
           matching_ingredients  == inventory_ingredients \cap recipe_ingredients
           match_percentage      == MatchPercentage(matching_ingredients,
                                                    recipe_ingredients)
       IN  IF match_percentage = ZeroDivisionError
           THEN /\ match_pc' = "raised"
                /\ UNCHANGED <<exact_matches, partial_matches>>
           ELSE /\ match_pc' = match_pc
                /\ IF IsExact(match_percentage)
                   THEN /\ exact_matches' = <<recipe>> \o exact_matches
                        /\ UNCHANGED partial_matches
                   ELSE IF IsPartial(match_percentage)
                   THEN /\ \E missing \in ListsOfSet(MissingIngredients(
                                   recipe_ingredients, inventory_ingredients)) :
                              partial_matches' =
                                  <<PartialMatch(recipe, missing, match_percentage)>>
                                      \o partial_matches
                        /\ UNCHANGED exact_matches
                   ELSE UNCHANGED <<exact_matches, partial_matches>>
    /\ recipe_index' = recipe_index + 1
    /\ UNCHANGED <<match_inventory, all_recipes, list_calls>>
    /\ UNCHANGED <<retryVars, invVars, parseVars, genVars, cacheVars, searchVars>>

\* One iteration of `for recipe in all_recipes`.
ClassifyRecipe ==
    /\ match_pc = "loop"
    /\ recipe_index < Len(all_recipes)
    /\ LET recipe                == all_recipes[recipe_index + 1]
           inventory_ingredients == InventoryIngredients(match_inventory)
           recipe_ingredients    == RecipeIngredients(recipe)
           matching_ingredients  == inventory_ingredients \cap recipe_ingredients
           match_percentage      == MatchPercentage(matching_ingredients,
                                                    recipe_ingredients)
       IN  IF match_percentage = ZeroDivisionError
           THEN /\ match_pc' = "raised"
                /\ UNCHANGED <<exact_matches, partial_matches>>
           ELSE /\ match_pc' = match_pc
                /\ IF IsExact(match_percentage)
                   THEN /\ exact_matches' = Append(exact_matches, recipe)
                        /\ UNCHANGED partial_matches
                   ELSE IF IsPartial(match_percentage)
                   THEN /\ \E missing \in ListsOfSet(MissingIngredients(
                                   recipe_ingredients, inventory_ingredients)) :
                              partial_matches' = Append(partial_matches,
                                  PartialMatch(recipe, missing, match_percentage))
                        /\ UNCHANGED exact_matches
                   ELSE UNCHANGED <<exact_matches, partial_matches>>
    /\ recipe_index' = recipe_index + 1
    /\ UNCHANGED <<match_inventory, all_recipes, list_calls>>
    /\ UNCHANGED <<retryVars, invVars, parseVars, genVars, cacheVars, searchVars>>

\* The loop is over: the two lists are returned.
MatchReturn ==
    /\ match_pc = "loop"
    /\ recipe_index = Len(all_recipes)
    /\ match_pc' = "returned"
    /\ UNCHANGED <<match_inventory, all_recipes, recipe_index, exact_matches,
                   partial_matches, list_calls>>
    /\ UNCHANGED <<retryVars, invVars, parseVars, genVars, cacheVars, searchVars>>

MatchIdle == 
    /\ match_inventory = NoInventory /\ all_recipes = <<>> /\ recipe_index = 0
    /\ exact_matches = <<>> /\ partial_matches = <<>> /\ match_pc = "idle"
    /\ list_calls = 0

(***************************************************************************)
(* SupabaseService.add_item / remove_item over get_inventory and           *)
(* save_inventory.  Each task makes one call: it reads the user's row, then *)
(* changes its own copy and writes the whole row back.  The service takes  *)
(* no lock, so the steps of different tasks interleave.                     *)
(***************************************************************************)
Tasks == 1..NumTasks

ItemNames  == {"Tomato", "tomato", "onion"}
Quantities == {"1 kg", "2 kg"}

InventoryItem(name, quantity, added_at) ==
    [ingredient_name |-> name, quantity |-> quantity, added_at |-> added_at]

\* The rows the inventory table may hold for the user before the calls: none,
\* or a row whose item names are distinct ignoring case.
StoredInventories ==
    { NoInventory,
      UserInventory(<<>>, 0),
      UserInventory(<<InventoryItem("Tomato", "1 kg", 0)>>, 0),
      UserInventory(<<InventoryItem("onion", None, 0),
                      InventoryItem("tomato", "1 kg", 0)>>, 0) }

NoCall == [kind |-> "none", ingredient_name |-> None, quantity |-> None]

\* Mutant: the names are compared as written.
FindExisting_CaseSensitive(items, ingredient_name) ==
    IF \E i \in DOMAIN items : items[i].ingredient_name = ingredient_name
    THEN CHOOSE i \in DOMAIN items :
           /\ items[i].ingredient_name = ingredient_name
           /\ \A j \in 1..(i - 1) : items[j].ingredient_name # ingredient_name
    ELSE 0

\* next((item for item in inventory.items
\*       if item.ingredient_name.lower() == ingredient_name.lower()), None):
\* the index of the first such item, 0 for None.
FindExisting(items, ingredient_name) ==
    IF \E i \in DOMAIN items :
           LowerWord(items[i].ingredient_name) = LowerWord(ingredient_name)
    THEN CHOOSE i \in DOMAIN items :
           /\ LowerWord(items[i].ingredient_name) = LowerWord(ingredient_name)
           /\ \A j \in 1..(i - 1) :
                 LowerWord(items[j].ingredient_name) # LowerWord(ingredient_name)
    ELSE 0

\* Mutant: the item is appended whether or not the name is already there.
AddedItems_AlwaysAppend(items, ingredient_name, quantity, now) ==
    Append(items, InventoryItem(ingredient_name, quantity, now))

\* The items of the inventory after add_item's update-or-append at time now.
AddedItems(items, ingredient_name, quantity, now) ==
    LET existing == FindExisting(items, ingredient_name) IN
    IF existing # 0
    THEN [items EXCEPT ![existing].quantity = quantity, ![existing].added_at = now]
    ELSE Append(items, InventoryItem(ingredient_name, quantity, now))

\* [item for item in inventory.items
\*  if item.ingredient_name.lower() != ingredient_name.lower()]
RECURSIVE RemainingItems(_, _)
RemainingItems(items, ingredient_name) ==
    IF items = <<>> THEN <<>>
    ELSE IF LowerWord(Head(items).ingredient_name) # LowerWord(ingredient_name)
         THEN <<Head(items)>> \o RemainingItems(Tail(items), ingredient_name)
         ELSE RemainingItems(Tail(items), ingredient_name)

\* Whether remove_item raises: no inventory, or no item was removed.
RemoveRaises(inventory, ingredient_name) ==
    \/ inventory = NoInventory
    \/ Len(RemainingItems(inventory.items, ingredient_name)) = Len(inventory.items)

\* Mutant: the write keeps the items of the row that the new record does not name.
Upsert_Merge(row, inventory) ==
    UserInventory(inventory.items \o
                  SelectSeq(row.items,
                            LAMBDA item : FindExisting(inventory.items,
                                                       item.ingredient_name) = 0),
                  inventory.updated_at)

\* save_inventory: self.client.table("inventory").upsert(data) replaces the
\* user's whole row (user_id, items, updated_at) with the record it is given.
Upsert(row, inventory) == inventory

InventoryStart ==
    /\ stored \in StoredInventories
    /\ clock = 1
    /\ op = [t \in Tasks |-> NoCall]
    /\ inv_pc = [t \in Tasks |-> "idle"]
    /\ local = [t \in Tasks |-> NoInventory]
    /\ saves = <<>>

\* A task calls add_item or remove_item, which awaits get_inventory.
GetInventory(t) ==
    /\ inv_pc[t] = "idle"
    /\ \E kind \in {"add", "remove"}, name \in ItemNames, quantity \in Quantities :
          op' = [op EXCEPT ![t] =
                    [kind |-> kind, ingredient_name |-> name,
                     quantity |-> IF kind = "add" THEN quantity ELSE None]]
    /\ local' = [local EXCEPT ![t] = stored]
    /\ inv_pc' = [inv_pc EXCEPT ![t] = "read"]
    /\ clock' = clock + 1
    /\ UNCHANGED <<stored, saves>>
    /\ UNCHANGED <<retryVars, matchVars, parseVars, genVars, cacheVars, searchVars>>

\* add_item after get_inventory: create the inventory if there is none, update
\* or append the item, refresh updated_at, and save_inventory upserts the row.
AddItemSave(t) ==
    /\ inv_pc[t] = "read"
    /\ op[t].kind = "add"
    /\ LET inventory == IF local[t] = NoInventory
                        THEN UserInventory(<<>>, clock)
                        ELSE local[t]
           saved == UserInventory(AddedItems(inventory.items, op[t].ingredient_name,
                                             op[t].quantity, clock), clock)
       IN  /\ stored' = Upsert(stored, saved)
           /\ local' = [local EXCEPT ![t] = saved]
           /\ saves' = Append(saves, [by |-> t, inventory |-> saved])
    /\ inv_pc' = [inv_pc EXCEPT ![t] = "done"]
    /\ clock' = clock + 1
    /\ UNCHANGED op
    /\ UNCHANGED <<retryVars, matchVars, parseVars, genVars, cacheVars, searchVars>>

\* remove_item after get_inventory, when an item is removed: refresh
\* updated_at, and save_inventory upserts the row.
RemoveItemSave(t) ==
    /\ inv_pc[t] = "read"
    /\ op[t].kind = "remove"
    /\ ~RemoveRaises(local[t], op[t].ingredient_name)
    /\ LET saved == UserInventory(RemainingItems(local[t].items,
                                                 op[t].ingredient_name), clock)
       IN  /\ stored' = Upsert(stored, saved)
           /\ local' = [local EXCEPT ![t] = saved]
           /\ saves' = Append(saves, [by |-> t, inventory |-> saved])
    /\ inv_pc' = [inv_pc EXCEPT ![t] = "done"]
    /\ clock' = clock + 1
    /\ UNCHANGED op
    /\ UNCHANGED <<retryVars, matchVars, parseVars, genVars, cacheVars, searchVars>>

\* Mutant: the row is written back, with a new updated_at, before the raise.
RemoveItemRaises_Saves(t) ==
    /\ inv_pc[t] = "read"
    /\ op[t].kind = "remove"
    /\ RemoveRaises(local[t], op[t].ingredient_name)
    /\ LET saved == UserInventory(IF local[t] = NoInventory THEN <<>> ELSE local[t].items,
                                  clock)
       IN  /\ stored' = Upsert(stored, saved)
           /\ saves' = Append(saves, [by |-> t, inventory |-> saved])
    /\ inv_pc' = [inv_pc EXCEPT ![t] = "failed"]
    /\ clock' = clock + 1
    /\ UNCHANGED <<op, local>>
    /\ UNCHANGED <<retryVars, matchVars, parseVars, genVars, cacheVars, searchVars>>

\* remove_item after get_inventory, when it raises: save_inventory is not called.
RemoveItemRaises(t) ==
    /\ inv_pc[t] = "read"
    /\ op[t].kind = "remove"
    /\ RemoveRaises(local[t], op[t].ingredient_name)
    /\ inv_pc' = [inv_pc EXCEPT ![t] = "failed"]
    /\ clock' = clock + 1
    /\ UNCHANGED <<stored, op, local, saves>>
    /\ UNCHANGED <<retryVars, matchVars, parseVars, genVars, cacheVars, searchVars>>

\* save_inventory raises (the upsert returned no data): the row is not written
\* and the call raises.
SaveInventoryFails(t) ==
    /\ inv_pc[t] = "read"
    /\ \/ op[t].kind = "add"
       \/ op[t].kind = "remove" /\ ~RemoveRaises(local[t], op[t].ingredient_name)
    /\ inv_pc' = [inv_pc EXCEPT ![t] = "failed"]
    /\ clock' = clock + 1
    /\ UNCHANGED <<stored, op, local, saves>>
    /\ UNCHANGED <<retryVars, matchVars, parseVars, genVars, cacheVars, searchVars>>

InventoryIdle ==
    /\ stored = NoInventory /\ clock = 0 /\ op = <<>> /\ inv_pc = <<>>
    /\ local = <<>> /\ saves = <<>>

(***************************************************************************)
(* LLMService._parse_recipe_response.  The raw text is a sequence of       *)
(* tokens: "FENCE" (the three backquotes of a code fence), a language tag,  *)
(* the blank " " (any whitespace) and pieces of JSON text.  json.loads is a *)
(* table from JSON text to the document it denotes; a document is a tree   *)
(* of tagged values.                                                       *)
(***************************************************************************)
Str(s)  == [t |-> "str", v |-> s]
Num(n)  == [t |-> "int", v |-> n]
Arr(l)  == [t |-> "list", v |-> l]
Obj(d)  == [t |-> "dict", v |-> d]
Null    == [t |-> "null", v |-> None]

\* A dict without some keys, and a dict with one key set.
Without(d, keys) == [f \in DOMAIN d \ keys |-> d[f]]
With(d, key, value) == [f \in DOMAIN d \cup {key} |-> IF f = key THEN value ELSE d[f]]

\* The identifier and the timestamp a completion may carry in its "id" and
\* "created_at" fields; uuid.uuid4() and datetime.utcnow() count from 1.
ModelOutputId        == 0
ModelOutputCreatedAt == 0

TestIngredient == [name |-> Str("test"), quantity |-> Str("1"), unit |-> Str("cup")]

TestRecipe ==
    [title |-> Str("Test Recipe"), description |-> Str("Test description"),
     ingredients |-> Arr(<<Obj(TestIngredient)>>),
     instructions |-> Arr(<<Str("Step 1")>>),
     cooking_time_minutes |-> Num(20), servings |-> Num(2),
     difficulty |-> Str("easy")]

\* The JSON texts that are one token long, and the documents they denote.
Documents ==
    [ recipe           |-> Obj(TestRecipe),
      Easy             |-> Obj([TestRecipe EXCEPT !.difficulty = Str("Easy")]),
      SuperHard        |-> Obj([TestRecipe EXCEPT !.difficulty = Str("Super-Hard")]),
      difficulty3      |-> Obj([TestRecipe EXCEPT !.difficulty = Num(3)]),
      withId           |-> Obj(With(With(TestRecipe, "id", Str(ModelOutputId)),
                                    "created_at", Str(ModelOutputCreatedAt))),
      titleOnly        |-> Obj(Without(TestRecipe,
                                 {"ingredients", "instructions", "cooking_time_minutes",
                                  "servings", "difficulty"})),
      noServings       |-> Obj(Without(TestRecipe, {"servings"})),
      instructionsStr  |-> Obj([TestRecipe EXCEPT !.instructions = Str("Should be a list")]),
      stepNumber       |-> Obj([TestRecipe EXCEPT !.instructions = Arr(<<Num(1)>>)]),
      noIngredients    |-> Obj([TestRecipe EXCEPT !.ingredients = Arr(<<>>)]),
      noSteps          |-> Obj([TestRecipe EXCEPT !.instructions = Arr(<<>>)]),
      ingredientStr    |-> Obj([TestRecipe EXCEPT !.ingredients = Arr(<<Str("invalid")>>)]),
      noQuantity       |-> Obj([TestRecipe EXCEPT !.ingredients =
                                 Arr(<<Obj(Without(TestIngredient, {"quantity"}))>>)]),
      noUnit           |-> Obj([TestRecipe EXCEPT !.ingredients =
                                 Arr(<<Obj(Without(TestIngredient, {"unit"}))>>)]),
      quantity2        |-> Obj([TestRecipe EXCEPT !.ingredients =
                                 Arr(<<Obj([TestIngredient EXCEPT !.quantity = Num(2)])>>)]),
      quantity2InstructionsStr |->
                           Obj([TestRecipe EXCEPT
                                 !.ingredients =
                                     Arr(<<Obj([TestIngredient EXCEPT !.quantity = Num(2)])>>),
                                 !.instructions = Str("Should be a list")]),
      title5           |-> Obj([TestRecipe EXCEPT !.title = Num(5)]),
      minutesAbc       |-> Obj([TestRecipe EXCEPT !.cooking_time_minutes = Str("abc")]),
      servingsNull     |-> Obj([TestRecipe EXCEPT !.servings = Null]),
      emptyList        |-> Arr(<<>>) ]

\* A JSON text three tokens long: a recipe whose instruction step holds the
\* characters ``` inside a JSON string.
TicksText == <<"{step", "FENCE", "step}">>
TicksDocument == Obj([TestRecipe EXCEPT !.instructions = Arr(<<Str("Use FENCE here")>>)])

\* json.loads(recipe_text): the document, or json.JSONDecodeError.
JsonLoads(recipe_text) ==
    IF Len(recipe_text) = 1 /\ recipe_text[1] \in DOMAIN Documents
    THEN [ok |-> TRUE, data |-> Documents[recipe_text[1]]]
    ELSE IF recipe_text = TicksText
         THEN [ok |-> TRUE, data |-> TicksDocument]
         ELSE [ok |-> FALSE, data |-> Null]

\* text.split(sep)[0] and what follows the first sep, for sep = '```'.
RECURSIVE BeforeFence(_)
BeforeFence(s) ==
    IF s = <<>> \/ Head(s) = "FENCE" THEN <<>>
    ELSE <<Head(s)>> \o BeforeFence(Tail(s))

\* text.split('```json')[0]: '```json' is the marker followed by the tag json.
RECURSIVE BeforeJsonFence(_)
BeforeJsonFence(s) ==
    IF s = <<>> \/ (Len(s) >= 2 /\ s[1] = "FENCE" /\ s[2] = "json") THEN <<>>
    ELSE <<Head(s)>> \o BeforeJsonFence(Tail(s))

Drop(s, n) == SubSeq(s, n + 1, Len(s))

\* Lines 286-292: strip, then cut the content out of a leading code fence.
StripCodeFence(raw_text) ==
    LET recipe_text == Strip(raw_text) IN
    IF Len(recipe_text) >= 2 /\ recipe_text[1] = "FENCE" /\ recipe_text[2] = "json"
    THEN \* recipe_text.split('```json')[1].split('```')[0].strip()
         Strip(BeforeFence(BeforeJsonFence(Drop(recipe_text, 2))))
    ELSE IF Len(recipe_text) >= 1 /\ recipe_text[1] = "FENCE"
         THEN \* recipe_text.split('```')[1].split('```')[0].strip()
              Strip(BeforeFence(BeforeFence(Drop(recipe_text, 1))))
         ELSE recipe_text

\* The outcome of a call: the Recipe it returned or the exception it raised.
NoRecipe ==
    [id |-> 0, title |-> "", description |-> "", ingredients |-> <<>>,
     instructions |-> <<>>, cooking_time_minutes |-> 0, servings |-> 0,
     difficulty |-> "", cuisine_type |-> None, dietary_tags |-> <<>>,
     image_url |-> None, created_at |-> 0, embedding |-> None]

Exception(type, msg) == [type |-> type, msg |-> msg]
Raises(type, msg) == [returned |-> FALSE, recipe |-> NoRecipe, raised |-> Exception(type, msg)]
Returns(recipe)   == [returned |-> TRUE, recipe |-> recipe, raised |-> NoError]

\* The except clauses of lines 360-366, applied to an exception raised inside
\* the try block.  pydantic's ValidationError cannot be constructed from a
\* message string, so `raise ValidationError(f"...")` raises TypeError; an
\* exception raised inside an except clause is not handled by the next one.
HandleParseException(e) ==
    CASE e.type = "ValidationError"
           -> Raises("TypeError", <<"No constructor defined">>)
      [] e.type \in {"KeyError", "TypeError", "AttributeError"}
           -> Raises("ValueError", <<"Invalid response structure">> \o e.msg)
      [] OTHER
           -> Raises(e.type, e.msg)

\* `f not in recipe_data` for the values json.loads can return.
MissingFields(recipe_data) ==
    LET required_fields == <<"title", "description", "ingredients", "instructions",
                             "cooking_time_minutes", "servings", "difficulty">>
    IN  SelectSeq(required_fields,
                  LAMBDA f : CASE recipe_data.t = "dict" -> f \notin DOMAIN recipe_data.v
                               [] recipe_data.t = "list" ->
                                    \A i \in DOMAIN recipe_data.v :
                                        recipe_data.v[i].t # "str" \/ recipe_data.v[i].v # f
                               [] OTHER -> TRUE)

\* pydantic: a str field takes a string, an Optional[str] field a string or None.
IsStr(value)    == value.t = "str"
IsOptStr(value) == value.t \in {"str", "null"}

\* dict.get(key), None when the key is absent.
Get(d, key) == IF key \in DOMAIN d THEN d[key] ELSE Null

\* What one pass of the loop of lines 311-323 does with an entry: the
\* exception it raises, or NoError when it appends an Ingredient.
IngredientError(ing_data) ==
    IF ing_data.t # "dict"
    THEN Exception("ValueError", <<"Invalid ingredient format">>)
    ELSE IF "name" \notin DOMAIN ing_data.v \/ "quantity" \notin DOMAIN ing_data.v
         THEN Exception("ValueError", <<"Ingredient missing name or quantity">>)
         ELSE IF ~( /\ IsStr(ing_data.v.name) /\ IsStr(ing_data.v.quantity)
                    /\ IsOptStr(Get(ing_data.v, "unit")) )
              THEN Exception("ValidationError", <<"Ingredient">>)
              ELSE NoError

\* Ingredient(name=..., quantity=..., unit=ing_data.get('unit')).
Ingredient(ing_data) ==
    [name |-> ing_data.v.name.v, quantity |-> ing_data.v.quantity.v,
     unit |-> Get(ing_data.v, "unit").v]

\* The values a for loop over recipe_data['ingredients'] visits: the elements
\* of a list, the keys of a dict, the characters of a string.
Iterate(value) ==
    CASE value.t = "list" -> value.v
      [] value.t = "dict" -> [i \in 1..Cardinality(DOMAIN value.v) |-> Str("key")]
      [] value.t = "str"  -> IF value.v = "" THEN <<>> ELSE <<Str("char")>>
      [] OTHER            -> <<>>
IsIterable(value) == value.t \in {"list", "dict", "str"}

\* int(x) for the values json.loads can return.
IntOf(value) ==
    CASE value.t = "int" -> [ok |-> TRUE, v |-> value.v, error |-> NoError]
      [] value.t = "str" ->
           IF value.v = "20"
           THEN [ok |-> TRUE, v |-> 20, error |-> NoError]
           ELSE [ok |-> FALSE, v |-> 0,
                 error |-> Exception("ValueError", <<"invalid literal for int()">>)]
      [] OTHER -> [ok |-> FALSE, v |-> 0,
                   error |-> Exception("TypeError", <<"int() argument">>)]

\* Mutant: an "id" field of the model output becomes the Recipe's id.
RecipeId_FromOutput(recipe_data, fresh) ==
    IF "id" \in DOMAIN recipe_data THEN recipe_data.id.v ELSE fresh

\* Line 333 and line 343: the Recipe's id is the uuid generated by the parser.
RecipeId(recipe_data, fresh) == fresh

\* Lines 342-356: the Recipe built from the checked values; pydantic validates
\* the fields that were not checked before (title, description, cuisine_type,
\* dietary_tags, image_url).
BuildRecipe(recipe_data, difficulty, recipe_id, created_at) ==
    LET minutes  == IntOf(recipe_data.cooking_time_minutes)
        servings == IntOf(recipe_data.servings)
        tags     == IF "dietary_tags" \in DOMAIN recipe_data
                    THEN recipe_data.dietary_tags ELSE Arr(<<>>)
    IN  IF ~minutes.ok THEN HandleParseException(minutes.error)
        ELSE IF ~servings.ok THEN HandleParseException(servings.error)
        ELSE IF ~( /\ IsStr(recipe_data.title)
                   /\ IsStr(recipe_data.description)
                   /\ IsOptStr(Get(recipe_data, "cuisine_type"))
                   /\ tags.t = "list" /\ \A i \in DOMAIN tags.v : IsStr(tags.v[i])
                   /\ IsOptStr(Get(recipe_data, "image_url")) )
        THEN HandleParseException(Exception("ValidationError", <<"Recipe">>))
        ELSE Returns(
               [id |-> RecipeId(recipe_data, recipe_id),
                title |-> recipe_data.title.v,
                description |-> recipe_data.description.v,
                ingredients |-> [i \in DOMAIN recipe_data.ingredients.v |->
                                    Ingredient(recipe_data.ingredients.v[i])],
                instructions |-> [i \in DOMAIN recipe_data.instructions.v |->
                                    recipe_data.instructions.v[i].v],
                cooking_time_minutes |-> minutes.v,
                servings |-> servings.v,
                difficulty |-> difficulty,
                cuisine_type |-> Get(recipe_data, "cuisine_type").v,
                dietary_tags |-> [i \in DOMAIN tags.v |-> tags.v[i].v],
                image_url |-> Get(recipe_data, "image_url").v,
                created_at |-> created_at,
                embedding |-> None])

\* Lines 300-358 on the document json.loads returned.
ParseDocument(document, recipe_id, created_at) ==
    IF document.t \notin {"dict", "list", "str"}
    THEN HandleParseException(Exception("TypeError", <<"not iterable">>))
    ELSE IF MissingFields(document) # <<>>
    THEN Raises("ValueError", <<"Missing required fields">>)
    ELSE IF document.t # "dict"
    THEN HandleParseException(Exception("TypeError", <<"indices must be integers">>))
    ELSE
    LET recipe_data == document.v
        entries     == Iterate(recipe_data.ingredients)
        bad         == { i \in DOMAIN entries : IngredientError(entries[i]) # NoError }
        first_bad   == CHOOSE i \in bad : \A j \in bad : i <= j
    IN  IF ~IsIterable(recipe_data.ingredients)
        THEN HandleParseException(Exception("TypeError", <<"not iterable">>))
        ELSE IF bad # {}
        THEN HandleParseException(IngredientError(entries[first_bad]))
        ELSE IF recipe_data.instructions.t # "list"
        THEN Raises("ValueError", <<"Instructions must be a list">>)
        ELSE IF \E i \in DOMAIN recipe_data.instructions.v :
                   ~IsStr(recipe_data.instructions.v[i])
        THEN Raises("ValueError", <<"All instruction steps must be strings">>)
        ELSE IF ~IsStr(recipe_data.difficulty)
        THEN HandleParseException(Exception("AttributeError", <<"lower">>))
        ELSE IF LowerWord(recipe_data.difficulty.v) \notin {"easy", "medium", "hard"}
        THEN Raises("ValueError", <<"Invalid difficulty level">>)
        ELSE BuildRecipe(recipe_data, LowerWord(recipe_data.difficulty.v),
                         recipe_id, created_at)

\* _parse_recipe_response(raw_text), with the uuid and the time it would use.
ParseRecipeResponse(raw_text, recipe_id, created_at) ==
    LET loaded == JsonLoads(StripCodeFence(raw_text)) IN
    IF ~loaded.ok
    THEN Raises("ValueError", <<"Failed to parse JSON from LLM response">>)
    ELSE ParseDocument(loaded.data, recipe_id, created_at)

\* The fenced forms of a content: ```json c ```, ``` c ``` and ```javascript c ```.
Fenced(tag, c) ==
    (IF tag = "" THEN <<"FENCE", " ">> ELSE <<"FENCE", tag, " ">>) \o c \o <<" ", "FENCE">>
FenceTags == {"json", "", "javascript"}

\* The contents a completion may hold and the raw texts handed to the parser.
Contents ==
    { <<d>> : d \in DOMAIN Documents } \cup { TicksText, <<"Here", "is", "a", "recipe">> }
RawTexts ==
    Contents
      \cup { Fenced("json", c) : c \in Contents }
      \cup { Fenced(tag, c) : tag \in {"", "javascript"},
                              c \in { <<"recipe">>, <<"SuperHard">>, TicksText } }
      \cup { <<" ">> \o Fenced("json", <<"recipe">>) \o <<" ">> }

ParseStart ==
    /\ parsed = <<>>
    /\ uuid_count = 0
    /\ utcnow = 1

\* One call of _parse_recipe_response: uuid_count + 1 is the uuid it draws and
\* utcnow the time it reads at lines 333-334; it returns or raises.
ParseCall(raw_text) ==
    LET outcome == ParseRecipeResponse(raw_text, uuid_count + 1, utcnow) IN
    /\ parsed' = Append(parsed, [text |-> raw_text, outcome |-> outcome])
    /\ uuid_count' = uuid_count + 1
    /\ utcnow' = utcnow + 1

ParseReturns ==
    /\ Len(parsed) < MaxParses
    /\ \E raw_text \in RawTexts :
          /\ ParseRecipeResponse(raw_text, uuid_count + 1, utcnow).returned
          /\ ParseCall(raw_text)
    /\ UNCHANGED <<retryVars, matchVars, invVars, genVars, cacheVars, searchVars>>

ParseRaises ==
    /\ Len(parsed) < MaxParses
    /\ \E raw_text \in RawTexts :
          /\ ~ParseRecipeResponse(raw_text, uuid_count + 1, utcnow).returned
          /\ ParseCall(raw_text)
    /\ UNCHANGED <<retryVars, matchVars, invVars, genVars, cacheVars, searchVars>>

ParseIdle ==
    /\ parsed = <<>> /\ uuid_count = 0 /\ utcnow = 0

(***************************************************************************)
(* LLMService.generate_recipe and the POST /api/recipes/generate route.    *)
(* generate_recipe builds the prompt, awaits _invoke_model_with_retry and  *)
(* parses the completion; it catches nothing.  The route validates the     *)
(* request body, awaits generate_recipe and maps what it raises to a       *)
(* status code.  The caller is the route, or code that calls the service   *)
(* directly.                                                               *)
(***************************************************************************)
IngredientArguments == { <<>>, <<"chicken">>, <<"chicken", "rice">> }
Callers == {"route", "direct"}

\* _build_prompt: the fixed parts of the prompt around the ingredient list
\* (the optional parts for restrictions, cuisine and difficulty are left out).
BuildPrompt(ingredients) ==
    <<"You are a professional chef assistant.", "Available Ingredients:">>
        \o ingredients \o <<"IMPORTANT INSTRUCTIONS:", "Required JSON format:">>

\* The text of each completion the model may return.
CompletionText(text) ==
    CASE text = "text1" -> Fenced("json", <<"recipe">>)
      [] text = "text2" -> <<"Here", "is", "a", "recipe">>
      [] OTHER          -> <<"title5">>

\* RecipeGenerationRequest: ingredients has min_length=1; FastAPI answers 422.
RequestValid(ingredients) == Len(ingredients) >= 1

\* The except clauses of the route, in their order.
StatusOf(e) ==
    CASE e.type = "ValueError"      -> 400
      [] e.type = "TimeoutError"    -> 504
      [] e.type = "ConnectionError" -> 503
      [] e.type = "RuntimeError"    -> 500
      [] OTHER                      -> 500

GenerateStart ==
    /\ caller \in Callers
    /\ gen_ingredients \in IngredientArguments
    /\ gen_pc = "request"
    /\ gen_raised = NoError
    /\ http_status = 0
    /\ max_retries \in 0..MaxRetries
    /\ initial_retry_delay \in 1..MaxDelay
    /\ prompt = <<>> /\ max_tokens = 0 /\ temperature = 0 /\ attempt = 0
    /\ last_error = NoError /\ invoke_pc = "idle" /\ calls = <<>>
    /\ last_call = NoError /\ sleeps = <<>> /\ raised = NoError
    /\ response_text = None

\* The request body fails validation: the handler is not run.
RequestRejected ==
    /\ gen_pc = "request"
    /\ caller = "route"
    /\ ~RequestValid(gen_ingredients)
    /\ http_status' = 422
    /\ gen_pc' = "responded"
    /\ UNCHANGED <<caller, gen_ingredients, gen_raised>>
    /\ UNCHANGED <<retryVars, matchVars, invVars, parseVars, cacheVars, searchVars>>

\* generate_recipe is called: it builds the prompt and awaits
\* _invoke_model_with_retry(prompt) with the default max_tokens and temperature.
GenerateInvoke ==
    /\ gen_pc = "request"
    /\ caller = "route" => RequestValid(gen_ingredients)
    /\ prompt' = BuildPrompt(gen_ingredients)
    /\ max_tokens' = 2048
    /\ temperature' = 7
    /\ attempt' = 0
    /\ invoke_pc' = "calling"
    /\ gen_pc' = "invoking"
    /\ UNCHANGED <<max_retries, initial_retry_delay, last_error, calls, last_call,
                   sleeps, raised, response_text>>
    /\ UNCHANGED <<caller, gen_ingredients, gen_raised, http_status>>
    /\ UNCHANGED <<matchVars, invVars, parseVars, cacheVars, searchVars>>

\* _invoke_model_with_retry raised: generate_recipe lets the exception through.
GeneratePropagates ==
    /\ gen_pc = "invoking"
    /\ invoke_pc = "raised"
    /\ gen_raised' = raised
    /\ gen_pc' = "raised"
    /\ UNCHANGED <<caller, gen_ingredients, http_status>>
    /\ UNCHANGED <<retryVars, matchVars, invVars, parseVars, cacheVars, searchVars>>

\* _invoke_model_with_retry returned and _parse_recipe_response returns the Recipe.
GenerateReturns ==
    /\ gen_pc = "invoking"
    /\ invoke_pc = "returned"
    /\ ParseRecipeResponse(CompletionText(response_text), uuid_count + 1, utcnow).returned
    /\ ParseCall(CompletionText(response_text))
    /\ gen_pc' = "returned"
    /\ UNCHANGED <<caller, gen_ingredients, gen_raised, http_status>>
    /\ UNCHANGED <<retryVars, matchVars, invVars, cacheVars, searchVars>>

\* Mutant: a completion that fails to parse sends generate_recipe back to the model.
GenerateParseRaises_InvokesAgain ==
    /\ gen_pc = "invoking"
    /\ invoke_pc = "returned"
    /\ ~ParseRecipeResponse(CompletionText(response_text), uuid_count + 1, utcnow).returned
    /\ ParseCall(CompletionText(response_text))
    /\ invoke_pc' = "calling"
    /\ UNCHANGED <<max_retries, initial_retry_delay, prompt, max_tokens, temperature,
                   attempt, last_error, calls, last_call, sleeps, raised, response_text>>
    /\ UNCHANGED <<genVars, matchVars, invVars, cacheVars, searchVars>>

\* _invoke_model_with_retry returned and _parse_recipe_response raises.
GenerateParseRaises ==
    /\ gen_pc = "invoking"
    /\ invoke_pc = "returned"
    /\ LET outcome == ParseRecipeResponse(CompletionText(response_text),
                                          uuid_count + 1, utcnow)
       IN  /\ ~outcome.returned
           /\ gen_raised' = outcome.raised
    /\ ParseCall(CompletionText(response_text))
    /\ gen_pc' = "raised"
    /\ UNCHANGED <<caller, gen_ingredients, http_status>>
    /\ UNCHANGED <<retryVars, matchVars, invVars, cacheVars, searchVars>>

\* The route returns the recipe with its metadata.
RouteReturns ==
    /\ caller = "route"
    /\ gen_pc = "returned"
    /\ http_status' = 200
    /\ gen_pc' = "responded"
    /\ UNCHANGED <<caller, gen_ingredients, gen_raised>>
    /\ UNCHANGED <<retryVars, matchVars, invVars, parseVars, cacheVars, searchVars>>

\* The route turns the exception into an HTTPException.
RouteHandlesException ==
    /\ caller = "route"
    /\ gen_pc = "raised"
    /\ http_status' = StatusOf(gen_raised)
    /\ gen_pc' = "responded"
    /\ UNCHANGED <<caller, gen_ingredients, gen_raised>>
    /\ UNCHANGED <<retryVars, matchVars, invVars, parseVars, cacheVars, searchVars>>

GenerateIdle ==
    /\ caller = None /\ gen_ingredients = <<>> /\ gen_pc = "idle"
    /\ gen_raised = NoError /\ http_status = 0

(***************************************************************************)
(* VectorSearchService.generate_embedding over _get_embedding_cached, an   *)
(* lru_cache(maxsize=1000) on a method: one cache for the class, keyed by  *)
(* the instance and the text.  The cache is a list of entries from the     *)
(* least to the most recently used.                                        *)
(***************************************************************************)
Instances == {1, 2}
EmbeddingTexts == { <<" ">>, <<"a">>, <<" ", "a", " ">>, <<"b">> }

\* self.embeddings_model.encode(text, convert_to_tensor=False), as a tuple.
Encode(text) == <<"embedding of">> \o text

CacheKey(instance, text) == <<instance, text>>
NoKey == <<0, <<>>>>

\* The position of a key in the cache, 0 when it is not there.
CacheIndex(entries, key) ==
    IF \E i \in DOMAIN entries : entries[i].key = key
    THEN CHOOSE i \in DOMAIN entries : entries[i].key = key
    ELSE 0

\* The cache without the entry at position i.
RemoveAt(entries, i) ==
    SubSeq(entries, 1, i - 1) \o SubSeq(entries, i + 1, Len(entries))

\* Mutant: a hit leaves the entry where it is (first in, first out).
Touch_NoRefresh(entries, key) == entries

\* A hit makes the entry the most recently used.
Touch(entries, key) ==
    LET i == CacheIndex(entries, key) IN Append(RemoveAt(entries, i), entries[i])

\* Mutant: a result is not kept.
Store_Nothing(entries, key, value) == entries

\* A miss stores the result; a full cache drops its least recently used entry.
Store(entries, key, value) ==
    Append(IF Len(entries) >= CacheMaxSize THEN Tail(entries) ELSE entries,
           [key |-> key, value |-> value])

\* The key a miss evicts.
Evicted(entries) == IF Len(entries) >= CacheMaxSize THEN Head(entries).key ELSE NoKey

\* Mutant: the text is not trimmed before the lookup.
LookupText_NoStrip(text) == text

\* generate_embedding looks up text.strip().
LookupText(text) == Strip(text)

EmbedEvent(instance, text, outcome, result, evicted) ==
    [kind |-> "embed", instance |-> instance, text |-> text, outcome |-> outcome,
     result |-> result, evicted |-> evicted]

CacheStart ==
    /\ cache = <<>>
    /\ embeds = <<>>
    /\ encode_calls = 0

\* generate_embedding with an empty or blank text: ValueError, no lookup.
EmbedInvalid ==
    /\ Len(embeds) < MaxEmbedCalls
    /\ \E instance \in Instances, text \in EmbeddingTexts :
          /\ Strip(text) = <<>>
          /\ embeds' = Append(embeds, EmbedEvent(instance, text, "ValueError", <<>>, NoKey))
    /\ UNCHANGED <<cache, encode_calls>>
    /\ UNCHANGED <<retryVars, matchVars, invVars, parseVars, genVars, searchVars>>

\* generate_embedding whose lookup hits: the cached tuple is returned as a list.
EmbedHit ==
    /\ Len(embeds) < MaxEmbedCalls
    /\ \E instance \in Instances, text \in EmbeddingTexts :
          LET key == CacheKey(instance, LookupText(text)) IN
          /\ Strip(text) # <<>>
          /\ CacheIndex(cache, key) # 0
          /\ cache' = Touch(cache, key)
          /\ embeds' = Append(embeds,
                 EmbedEvent(instance, text, "hit",
                            cache[CacheIndex(cache, key)].value, NoKey))
    /\ UNCHANGED encode_calls
    /\ UNCHANGED <<retryVars, matchVars, invVars, parseVars, genVars, searchVars>>

\* generate_embedding whose lookup misses: the encoder runs and its result is
\* stored and returned.
EmbedMiss ==
    /\ Len(embeds) < MaxEmbedCalls
    /\ \E instance \in Instances, text \in EmbeddingTexts :
          LET key == CacheKey(instance, LookupText(text)) IN
          /\ Strip(text) # <<>>
          /\ CacheIndex(cache, key) = 0
          /\ cache' = Store(cache, key, Encode(LookupText(text)))
          /\ embeds' = Append(embeds,
                 EmbedEvent(instance, text, "miss", Encode(LookupText(text)),
                            Evicted(cache)))
    /\ encode_calls' = encode_calls + 1
    /\ UNCHANGED <<retryVars, matchVars, invVars, parseVars, genVars, searchVars>>

\* generate_embedding whose lookup misses and whose encoder raises: nothing is
\* stored and RuntimeError is raised.
EmbedFails ==
    /\ Len(embeds) < MaxEmbedCalls
    /\ \E instance \in Instances, text \in EmbeddingTexts :
          LET key == CacheKey(instance, LookupText(text)) IN
          /\ Strip(text) # <<>>
          /\ CacheIndex(cache, key) = 0
          /\ embeds' = Append(embeds,
                 EmbedEvent(instance, text, "RuntimeError", <<>>, NoKey))
    /\ encode_calls' = encode_calls + 1
    /\ UNCHANGED cache
    /\ UNCHANGED <<retryVars, matchVars, invVars, parseVars, genVars, searchVars>>

\* clear_embedding_cache: cache_clear() empties the cache of the class.
ClearEmbeddingCache ==
    /\ Len(embeds) < MaxEmbedCalls
    /\ cache' = <<>>
    /\ embeds' = Append(embeds, [kind |-> "clear", instance |-> 0, text |-> <<>>,
                                 outcome |-> "cleared", result |-> <<>>,
                                 evicted |-> NoKey])
    /\ UNCHANGED encode_calls
    /\ UNCHANGED <<retryVars, matchVars, invVars, parseVars, genVars, searchVars>>

CacheIdle ==
    /\ cache = <<>> /\ embeds = <<>> /\ encode_calls = 0

(***************************************************************************)
(* POST /api/recipes/search: the handler asks the vector search for the    *)
(* ranked results, then asks the recipes table for each result's recipe.   *)
(***************************************************************************)
RecipeIds == {"recipe-1", "recipe-2", "recipe-3"}

\* The "id" of a search result: a recipe id, or a value `if recipe_id:` takes
\* for false (None, the empty string).
ResultIds == RecipeIds \cup {""}

\* What search_recipes may return: the matches of the index query, best
\* first, each with its place in the ranking.
SearchResultLists ==
    UNION { { [i \in 1..n |-> [id |-> f[i], rank |-> i]] : f \in [1..n -> ResultIds] } :
              n \in 0..MaxResults }

\* get_recipe(recipe_id): the Recipe of the row with that id, None without one.
GetRecipe(table, recipe_id) ==
    IF recipe_id \in table THEN [found |-> TRUE, id |-> recipe_id]
                           ELSE [found |-> FALSE, id |-> None]

\* recipe.model_dump()
ModelDump(recipe) == [id |-> recipe.id]

\* Mutant: a recipe found is put before the ones found so far.
Collect_Prepends(found, recipe) ==
    IF recipe.found THEN <<ModelDump(recipe)>> \o found ELSE found

\* `if recipe: recipes.append(recipe.model_dump())`
Collect(found, recipe) ==
    IF recipe.found THEN Append(found, ModelDump(recipe)) ELSE found

NoResponse == [status_code |-> 0, data |-> <<>>, count |-> 0]

\* The except clauses of the handler, in order.
SearchStatusOf(e) ==
    IF e.type = "ValueError" THEN 400
    ELSE IF e.type = "RuntimeError" THEN 500
    ELSE 500

SearchStart ==
    /\ recipe_table \in SUBSET RecipeIds
    /\ search_results \in SearchResultLists
    /\ search_index = 0
    /\ recipes = <<>>
    /\ get_recipe_calls = <<>>
    /\ search_pc = "start"
    /\ search_raised = NoError
    /\ search_response = NoResponse

\* vector_search_service.search_recipes returns its results.
SearchReturns ==
    /\ search_pc = "start"
    /\ search_pc' = "loop"
    /\ UNCHANGED <<recipe_table, search_results, search_index, recipes,
                   get_recipe_calls, search_raised, search_response>>
    /\ UNCHANGED <<retryVars, matchVars, invVars, parseVars, genVars, cacheVars>>

\* vector_search_service.search_recipes raises: ValueError for a blank query,
\* RuntimeError for a failed search.
SearchRaises ==
    /\ search_pc = "start"
    /\ \E e \in { [type |-> "ValueError", msg |-> <<"Search query cannot be empty">>],
                  [type |-> "RuntimeError", msg |-> <<"Recipe search failed">>] } :
          /\ search_raised' = e
          /\ search_response' = [status_code |-> SearchStatusOf(e), data |-> <<>>,
                                 count |-> 0]
    /\ search_pc' = "responded"
    /\ UNCHANGED <<recipe_table, search_results, search_index, recipes,
                   get_recipe_calls>>
    /\ UNCHANGED <<retryVars, matchVars, invVars, parseVars, genVars, cacheVars>>

\* One iteration of `for result in search_results` whose id is taken for
\* false: get_recipe is not called.
SkipResult ==
    /\ search_pc = "loop"
    /\ search_index < Len(search_results)
    /\ search_results[search_index + 1].id = ""
    /\ search_index' = search_index + 1
    /\ UNCHANGED <<recipe_table, search_results, recipes, get_recipe_calls,
                   search_pc, search_raised, search_response>>
    /\ UNCHANGED <<retryVars, matchVars, invVars, parseVars, genVars, cacheVars>>

\* One iteration that calls get_recipe: a recipe found is appended.
FetchRecipe ==
    /\ search_pc = "loop"
    /\ search_index < Len(search_results)
    /\ LET recipe_id == search_results[search_index + 1].id IN
       /\ recipe_id # ""
       /\ get_recipe_calls' = Append(get_recipe_calls, recipe_id)
       /\ recipes' = Collect(recipes, GetRecipe(recipe_table, recipe_id))
    /\ search_index' = search_index + 1
    /\ UNCHANGED <<recipe_table, search_results, search_pc, search_raised,
                   search_response>>
    /\ UNCHANGED <<retryVars, matchVars, invVars, parseVars, genVars, cacheVars>>

\* One iteration whose get_recipe call raises (the query failed): the handler
\* answers 500.
FetchRaises ==
    /\ search_pc = "loop"
    /\ search_index < Len(search_results)
    /\ LET recipe_id == search_results[search_index + 1].id
           e == [type |-> "Exception", msg |-> <<"Error retrieving recipe from Supabase">>]
       IN  /\ recipe_id # ""
           /\ get_recipe_calls' = Append(get_recipe_calls, recipe_id)
           /\ search_raised' = e
           /\ search_response' = [status_code |-> SearchStatusOf(e), data |-> <<>>,
                                  count |-> 0]
    /\ search_pc' = "responded"
    /\ UNCHANGED <<recipe_table, search_results, search_index, recipes>>
    /\ UNCHANGED <<retryVars, matchVars, invVars, parseVars, genVars, cacheVars>>

\* The loop is over: the handler returns data and meta.count.
SearchResponds ==
    /\ search_pc = "loop"
    /\ search_index = Len(search_results)
    /\ search_response' = [status_code |-> 200, data |-> recipes, count |-> Len(recipes)]
    /\ search_pc' = "responded"
    /\ UNCHANGED <<recipe_table, search_results, search_index, recipes,
                   get_recipe_calls, search_raised>>
    /\ UNCHANGED <<retryVars, matchVars, invVars, parseVars, genVars, cacheVars>>

SearchIdle ==
    /\ recipe_table = {} /\ search_results = <<>> /\ search_index = 0
    /\ recipes = <<>> /\ get_recipe_calls = <<>> /\ search_pc = "idle"
    /\ search_raised = NoError /\ search_response = NoResponse

RetryNext ==
    LoopFallthrough \/ AttemptInvalid \/ AttemptSucceeds \/ AttemptFails \/ WakeUp

RetryInit == RetryStart /\ MatchIdle /\ InventoryIdle /\ ParseIdle /\ GenerateIdle /\ CacheIdle /\ SearchIdle

SpecRetry == RetryInit /\ [][RetryNext]_vars

\* Every self.llm.complete call comes back (it returns or raises) and every
\* asyncio.sleep ends: a step of the loop that can be taken is taken.
SpecRetryFair == RetryInit /\ [][RetryNext]_vars /\ WF_vars(RetryNext)

MatchNext == MatchNoInventory \/ MatchListRecipes \/ ClassifyRecipe \/ MatchReturn

MatchInit == RetryIdle /\ MatchStart /\ InventoryIdle /\ ParseIdle /\ GenerateIdle /\ CacheIdle /\ SearchIdle

SpecMatch == MatchInit /\ [][MatchNext]_vars

InventoryNext ==
    \E t \in Tasks :
        \/ GetInventory(t)
        \/ AddItemSave(t)
        \/ RemoveItemSave(t)
        \/ RemoveItemRaises(t)
        \/ SaveInventoryFails(t)

InventoryInit == RetryIdle /\ MatchIdle /\ InventoryStart /\ ParseIdle /\ GenerateIdle /\ CacheIdle /\ SearchIdle

SpecInventory == InventoryInit /\ [][InventoryNext]_vars

ParseNext == ParseReturns \/ ParseRaises

ParseInit == RetryIdle /\ MatchIdle /\ InventoryIdle /\ ParseStart /\ GenerateIdle /\ CacheIdle /\ SearchIdle

SpecParse == ParseInit /\ [][ParseNext]_vars

GenerateNext ==
    \/ RequestRejected \/ GenerateInvoke
    \/ AttemptSucceeds \/ AttemptFails \/ WakeUp
    \/ GeneratePropagates \/ GenerateReturns \/ GenerateParseRaises
    \/ RouteReturns \/ RouteHandlesException

GenerateInit == GenerateStart /\ MatchIdle /\ InventoryIdle /\ ParseStart /\ CacheIdle /\ SearchIdle

SpecGenerate == GenerateInit /\ [][GenerateNext]_vars

CacheNext == EmbedInvalid \/ EmbedHit \/ EmbedMiss \/ EmbedFails \/ ClearEmbeddingCache

CacheInit ==
    RetryIdle /\ MatchIdle /\ InventoryIdle /\ ParseIdle /\ GenerateIdle /\ CacheStart
        /\ SearchIdle

SpecCache == CacheInit /\ [][CacheNext]_vars

SearchNext ==
    SearchReturns \/ SearchRaises \/ SkipResult \/ FetchRecipe \/ FetchRaises
        \/ SearchResponds

SearchInit ==
    RetryIdle /\ MatchIdle /\ InventoryIdle /\ ParseIdle /\ GenerateIdle /\ CacheIdle
        /\ SearchStart

SpecSearch == SearchInit /\ [][SearchNext]_vars

(***************************************************************************)
(* The retrying model invoker: claims.                                     *)
(***************************************************************************)
RetryableKinds    == {"Timeout", "ConnectionFailure", "RateLimited"}
NonRetryableKinds == {"AuthFailure", "InvocationFailure"}

\* Every self.llm.complete call so far failed with a retryable classification.
AllRetryable == calls # <<>> /\ \A i \in DOMAIN calls : calls[i] \in RetryableKinds

\* The inputs pass the pre-invocation validation, stated on the values.
PromptBlank   == \A i \in DOMAIN prompt : prompt[i] = " "
InputsInvalid == PromptBlank \/ temperature < 0 \/ temperature > 10 \/ max_tokens < 1

\* The last k words of a message.
Suffix(s, k) == SubSeq(s, Len(s) - k + 1, Len(s))

RECURSIVE SumSeq(_)
SumSeq(s) == IF s = <<>> THEN 0 ELSE Head(s) + SumSeq(Tail(s))

\* C1: with max_retries = N >= 0 and every model invocation failing with a
\* retryable error, the call makes exactly N+1 invocation attempts before it
\* raises: it has raised exactly when the (N+1)-th invocation has failed, and
\* it never makes more than N+1.
C1_ExhaustedAfterNPlusOneAttempts ==
    (max_retries >= 0 /\ AllRetryable)
        => /\ Len(calls) <= max_retries + 1
           /\ (invoke_pc = "raised") <=> (Len(calls) = max_retries + 1)
           /\ invoke_pc # "returned"

C1_Witness ==
    /\ max_retries = 3 /\ AllRetryable /\ Len(calls) = 4 /\ invoke_pc = "raised"

\* C2: an attempt that fails with a non-retryable classification (AuthFailure
\* or generic) is the last invocation of the call, on whichever attempt index
\* it occurs: the call has raised a RuntimeError wrapping that attempt's
\* message and no sleep followed the failure.
C2_NonRetryableRaisedImmediately ==
    \A i \in DOMAIN calls :
        calls[i] \in NonRetryableKinds
            => /\ i = Len(calls)
               /\ i = attempt + 1
               /\ invoke_pc = "raised"
               /\ raised.type = "RuntimeError"
               /\ Suffix(raised.msg, Len(last_call.msg)) = last_call.msg
               /\ response_text = None
               /\ Len(sleeps) = i - 1

C2_Witness ==
    /\ max_retries = 3 /\ Len(calls) = 2 /\ calls[2] = "AuthFailure"
    /\ invoke_pc = "raised" /\ Len(sleeps) = 1

\* C3: once all max_retries + 1 attempts have failed with retryable errors, no
\* result is returned and the exception raised is the classified error of the
\* final attempt (TimeoutError for a timeout, ConnectionError for a connection
\* failure, RuntimeError for a rate limit), carrying that attempt's message.
C3_LastClassifiedErrorSurfaced ==
    (max_retries >= 0 /\ AllRetryable /\ Len(calls) = max_retries + 1)
        => /\ invoke_pc = "raised"
           /\ response_text = None
           /\ raised # NoError
           /\ raised.type = (CASE calls[Len(calls)] = "Timeout" -> "TimeoutError"
                               [] calls[Len(calls)] = "ConnectionFailure" -> "ConnectionError"
                               [] OTHER -> "RuntimeError")
           /\ Suffix(raised.msg, Len(last_call.msg)) = last_call.msg
           /\ (calls[Len(calls)] = "RateLimited"
                  => Contains("rate limit", raised.msg))

C3_Witness ==
    /\ max_retries = 2 /\ invoke_pc = "raised"
    /\ calls = <<"Timeout", "RateLimited", "ConnectionFailure">>
    /\ raised.type = "ConnectionError"
    /\ last_call.msg = <<"Network", "unreachable">>

\* C4: the k-th sleep of a call (after the retryable failure of attempt index
\* k-1 < max_retries) lasts initial_retry_delay * 2^(k-1): the first lasts the
\* initial delay and each next one twice the one before.  No sleep follows a
\* final attempt, a success or a non-retryable failure, so a call that has
\* ended slept once per invocation but the last, and an exhausted run slept
\* max_retries times, initial_retry_delay * (2^max_retries - 1) in total.
C4_ExponentialBackoff ==
    /\ \A k \in DOMAIN sleeps :
          /\ k <= max_retries
          /\ calls[k] \in RetryableKinds
          /\ sleeps[k] = IF k = 1 THEN initial_retry_delay ELSE 2 * sleeps[k - 1]
    /\ invoke_pc = "sleeping" => Len(sleeps) = Len(calls) /\ attempt = Len(calls) - 1
    /\ invoke_pc = "calling"  => Len(sleeps) = Len(calls) /\ attempt = Len(calls)
    /\ (invoke_pc \in {"returned", "raised"} /\ calls # <<>>)
          => Len(sleeps) = Len(calls) - 1
    /\ (invoke_pc = "raised" /\ max_retries >= 0 /\ AllRetryable)
          => /\ Len(sleeps) = max_retries
             /\ SumSeq(sleeps) = initial_retry_delay * (Pow2(max_retries) - 1)

C4_Witness ==
    /\ max_retries = 3 /\ initial_retry_delay = 2 /\ invoke_pc = "raised"
    /\ sleeps = <<2, 4, 8>> /\ AllRetryable

InventoryKeys ==
    { LowerWord(match_inventory.items[j].ingredient_name) :
        j \in DOMAIN match_inventory.items }
RecipeKeys(i) ==
    { LowerWord(all_recipes[i].ingredients[j]) : j \in DOMAIN all_recipes[i].ingredients }
MatchedKeys(i) == RecipeKeys(i) \cap InventoryKeys

\* How many entries of a result list are the i-th recipe.
TimesIn(list, i) == Cardinality({ k \in DOMAIN list : list[k].id = i })

\* C6: with a non-empty inventory, every classified recipe with at least one
\* ingredient whose lower-cased ingredient names are all among the lower-cased
\* inventory names is in exact_matches exactly once and not in partial_matches.
C6_FullyCoveredRecipeIsExact ==
    \A i \in 1..recipe_index :
        (all_recipes[i].ingredients # <<>>
           /\ \A j \in DOMAIN all_recipes[i].ingredients :
                 LowerWord(all_recipes[i].ingredients[j]) \in InventoryKeys)
        => /\ TimesIn(exact_matches, i) = 1
           /\ TimesIn(partial_matches, i) = 0
           /\ \E k \in DOMAIN exact_matches : exact_matches[k] = all_recipes[i]

C6_Witness ==
    /\ match_pc = "returned" /\ recipe_index = 2
    /\ all_recipes[1].ingredients = <<"Tomato", "tomato", "onion">>
    /\ all_recipes[2].ingredients = <<"tomato">>
    /\ InventoryKeys = {"tomato", "onion", "oil"}
    /\ Len(exact_matches) = 2

\* C7: every entry of partial_matches carries match_percentage
\* |inventory /\ recipe_keys| / |recipe_keys|, at least 0.8 and below 1.0; a
\* classified recipe with percentage 1.0 is in exact_matches and not in
\* partial_matches, and one with percentage below 0.8 is in neither list.
C7_PartialPercentageRange ==
    /\ \A k \in DOMAIN partial_matches :
          LET i == partial_matches[k].id
              n == Cardinality(RecipeKeys(i))
              m == Cardinality(MatchedKeys(i))
          IN  /\ i \in 1..recipe_index
              /\ n > 0
              /\ partial_matches[k].match_percentage = [num |-> m, den |-> n]
              /\ 4 * n <= 5 * m
              /\ m < n
    /\ \A i \in 1..recipe_index :
          LET n == Cardinality(RecipeKeys(i))
              m == Cardinality(MatchedKeys(i))
          IN  /\ (n > 0 /\ m = n)
                  => TimesIn(exact_matches, i) = 1 /\ TimesIn(partial_matches, i) = 0
              /\ 5 * m < 4 * n
                  => TimesIn(exact_matches, i) = 0 /\ TimesIn(partial_matches, i) = 0

C7_Witness ==
    /\ match_pc = "returned" /\ recipe_index = 2
    /\ Len(partial_matches) = 1
    /\ partial_matches[1].match_percentage = [num |-> 4, den |-> 5]
    /\ partial_matches[1].id = 1
    /\ Cardinality(RecipeKeys(2)) = 4 /\ Cardinality(MatchedKeys(2)) = 3
    /\ exact_matches = <<>>

\* C8: the names in missing_ingredients of a partial match are exactly the
\* lower-cased recipe ingredient names that are not lower-cased inventory
\* names: the list is non-empty, shares no name with the inventory, holds no
\* name twice and has |recipe_keys| - |inventory /\ recipe_keys| entries.
C8_MissingIngredientsExact ==
    \A k \in DOMAIN partial_matches :
        LET i       == partial_matches[k].id
            missing == partial_matches[k].missing_ingredients
            names   == { missing[j] : j \in DOMAIN missing }
        IN  /\ names = RecipeKeys(i) \ InventoryKeys
            /\ names # {}
            /\ names \cap InventoryKeys = {}
            /\ Cardinality(names) = Len(missing)
            /\ Len(missing) = Cardinality(RecipeKeys(i)) - Cardinality(MatchedKeys(i))

C8_Witness ==
    /\ match_pc = "returned"
    /\ Len(partial_matches) = 1
    /\ all_recipes[partial_matches[1].id].ingredients =
           <<"Tomato", "tomato", "onion", "garlic", "basil", "oil">>
    /\ partial_matches[1].missing_ingredients = <<"tomato">>
    /\ InventoryKeys = {"onion", "garlic", "basil", "oil"}

\* C9: a recipe with zero ingredients is in neither exact_matches nor
\* partial_matches, whatever the inventory, and classifying it raises nothing.
C9_EmptyRecipeNeverMatches ==
    /\ match_pc # "raised"
    /\ \A i \in 1..Len(all_recipes) :
          all_recipes[i].ingredients = <<>>
              => TimesIn(exact_matches, i) = 0 /\ TimesIn(partial_matches, i) = 0

C9_Witness ==
    /\ match_pc = "returned" /\ recipe_index = 2
    /\ all_recipes[1].ingredients = <<>>
    /\ all_recipes[2].ingredients = <<"onion">>
    /\ Len(exact_matches) = 1 /\ exact_matches[1].id = 2

(***************************************************************************)
(* The inventory operations: claims.                                       *)
(***************************************************************************)
\* The positions of the items of a list whose name is the given one ignoring case.
SameName(items, ingredient_name) ==
    { i \in DOMAIN items :
        LowerWord(items[i].ingredient_name) = LowerWord(ingredient_name) }

\* C10: when add_item writes for a name that, ignoring case, is the name of an
\* item of the stored inventory the call read (no other write came between its
\* read and its write), the stored inventory afterwards holds exactly one item
\* of that name, with this call's quantity and added_at, and as many items as
\* before.
C10_AddExistingNameUpdatesInPlace ==
    [][ \A t \in Tasks :
          ( /\ inv_pc[t] = "read"
            /\ inv_pc'[t] = "done"
            /\ op[t].kind = "add"
            /\ stored = local[t]
            /\ SameName(stored.items, op[t].ingredient_name) # {} )
          => /\ Cardinality(SameName(stored'.items, op[t].ingredient_name)) = 1
             /\ \A i \in SameName(stored'.items, op[t].ingredient_name) :
                   /\ stored'.items[i].quantity = op[t].quantity
                   /\ stored'.items[i].added_at = clock
             /\ Len(stored'.items) = Len(stored.items)
             /\ stored'.updated_at = clock ]_vars

C10_Witness ==
    \E t1, t2 \in Tasks :
        /\ op[t1] = [kind |-> "add", ingredient_name |-> "Tomato", quantity |-> "1 kg"]
        /\ op[t2] = [kind |-> "add", ingredient_name |-> "tomato", quantity |-> "2 kg"]
        /\ inv_pc[t1] = "done" /\ inv_pc[t2] = "done"
        /\ Len(saves) = 2 /\ saves[1].by = t1 /\ saves[2].by = t2
        /\ Len(saves[1].inventory.items) = 1
        /\ Len(stored.items) = 1
        /\ stored.items[1].ingredient_name = "Tomato"
        /\ stored.items[1].quantity = "2 kg"
        /\ stored.items[1].added_at > saves[1].inventory.items[1].added_at

\* The item names of a list are pairwise different ignoring case.
NoDuplicateNames(items) ==
    \A i, j \in DOMAIN items :
        LowerWord(items[i].ingredient_name) = LowerWord(items[j].ingredient_name)
            => i = j

\* C11: starting from an absent or duplicate-free stored inventory, after any
\* sequence and any interleaving of add_item and remove_item calls, the stored
\* inventory never holds two items whose names are equal ignoring case (and
\* neither does any record a call has written).
C11_NoDuplicateNamesStored ==
    /\ NoDuplicateNames(stored.items)
    /\ \A k \in DOMAIN saves : NoDuplicateNames(saves[k].inventory.items)

\* Two add_item calls for names equal ignoring case overlap (both read before
\* either writes) and both write.
C11_Witness ==
    \E t1, t2 \in Tasks :
        /\ op[t1].kind = "add" /\ op[t1].ingredient_name = "Tomato"
        /\ op[t2].kind = "add" /\ op[t2].ingredient_name = "tomato"
        /\ inv_pc[t1] = "done" /\ inv_pc[t2] = "done"
        /\ Len(saves) = 2 /\ saves[1].by = t1 /\ saves[2].by = t2
        /\ Len(saves[1].inventory.items) = 1
        /\ saves[1].inventory.items[1].ingredient_name = "Tomato"
        /\ Len(stored.items) = 1
        /\ stored.items[1].ingredient_name = "tomato"

\* C12: the calls are not serialized: the stored inventory is exactly the
\* record of the last save_inventory write, that record is the writing call's
\* own copy, and every call that returned wrote once; so the change of a call
\* that returned successfully can be absent from the stored inventory.
C12_LastWriteWins ==
    /\ saves # <<>> => stored = saves[Len(saves)].inventory
    /\ \A k \in DOMAIN saves :
          /\ inv_pc[saves[k].by] = "done"
          /\ local[saves[k].by] = saves[k].inventory
    /\ Len(saves) = Cardinality({ t \in Tasks : inv_pc[t] = "done" })

\* Two concurrent add_item calls with different names both return
\* successfully and only the second writer's name is stored.
C12_Witness ==
    \E t1, t2 \in Tasks :
        /\ op[t1].kind = "add" /\ op[t1].ingredient_name = "Tomato"
        /\ op[t2].kind = "add" /\ op[t2].ingredient_name = "onion"
        /\ inv_pc[t1] = "done" /\ inv_pc[t2] = "done"
        /\ Len(saves) = 2 /\ saves[1].by = t1 /\ saves[2].by = t2
        /\ saves[1].inventory.items[1].ingredient_name = "Tomato"
        /\ Len(stored.items) = 1
        /\ stored.items[1].ingredient_name = "onion"
        /\ SameName(stored.items, "Tomato") = {}

(***************************************************************************)
(* The response parser: claims.                                            *)
(***************************************************************************)
\* The document a raw text denotes once its fence is cut away.
Loaded(k) == JsonLoads(StripCodeFence(parsed[k].text))

\* Two outcomes are the same apart from the id and created_at of the Recipe:
\* the same Recipe, or an exception of the same type.
SameOutcome(a, b) ==
    /\ a.returned = b.returned
    /\ a.returned =>
          [a.recipe EXCEPT !.id = 0, !.created_at = 0]
              = [b.recipe EXCEPT !.id = 0, !.created_at = 0]
    /\ ~a.returned => a.raised.type = b.raised.type

\* C13: for any content c, parsing c wrapped in a code fence (tagged json,
\* tagged with another language, or bare) has the same outcome as parsing c
\* itself: the same Recipe apart from id and created_at, or an exception of
\* the same type.
C13_FencedSameAsUnfenced ==
    \A i, j \in DOMAIN parsed :
        \A tag \in FenceTags :
            parsed[i].text = Fenced(tag, parsed[j].text)
                => SameOutcome(parsed[i].outcome, parsed[j].outcome)

\* The parsed document lacks a required field, or its instructions are not a
\* list, or its difficulty lower-cased is not easy, medium or hard.
LacksFieldOrBadInstructionsOrDifficulty(document) ==
    /\ document.t = "dict"
    /\ \/ MissingFields(document) # <<>>
       \/ /\ "instructions" \in DOMAIN document.v
          /\ document.v.instructions.t # "list"
       \/ /\ "difficulty" \in DOMAIN document.v
          /\ IsStr(document.v.difficulty)
          /\ LowerWord(document.v.difficulty.v) \notin {"easy", "medium", "hard"}

\* C14: when the parsed document lacks a required field, or its instructions
\* are not a list, or its difficulty lower-cased is not one of easy, medium,
\* hard, the parser returns no Recipe and raises a ValueError.
C14_MalformedDocumentRaisesValueError ==
    \A k \in DOMAIN parsed :
        (Loaded(k).ok /\ LacksFieldOrBadInstructionsOrDifficulty(Loaded(k).data))
            => /\ ~parsed[k].outcome.returned
               /\ parsed[k].outcome.raised.type = "ValueError"

\* C15: every Recipe the parser returns has at least one ingredient and at
\* least one instruction step.
C15_ReturnedRecipeHasIngredientsAndSteps ==
    \A k \in DOMAIN parsed :
        parsed[k].outcome.returned
            => /\ Len(parsed[k].outcome.recipe.ingredients) >= 1
               /\ Len(parsed[k].outcome.recipe.instructions) >= 1

\* C16: the id and created_at of every returned Recipe are the parser's: the
\* uuid drawn by that call and the time read by it, never the "id" or
\* "created_at" field of the model output; the Recipe is the one the same
\* output without those fields gives; and two calls never give the same id.
C16_IdAndCreatedAtAssignedByParser ==
    \A k \in DOMAIN parsed :
        parsed[k].outcome.returned
            => LET recipe == parsed[k].outcome.recipe IN
               /\ recipe.id = k
               /\ recipe.id \in 1..uuid_count
               /\ recipe.id # ModelOutputId
               /\ recipe.created_at \in 1..(utcnow - 1)
               /\ recipe.created_at # ModelOutputCreatedAt
               /\ parsed[k].text = <<"withId">>
                      => recipe = ParseRecipeResponse(<<"recipe">>, recipe.id,
                                                      recipe.created_at).recipe
               /\ \A j \in DOMAIN parsed :
                      (j # k /\ parsed[j].outcome.returned)
                          => parsed[j].outcome.recipe.id # recipe.id

\* The same text, carrying an "id" and a "created_at" field, is parsed twice.
C16_Witness ==
    /\ Len(parsed) = 2
    /\ parsed[1].text = <<"withId">> /\ parsed[2].text = <<"withId">>
    /\ parsed[1].outcome.returned /\ parsed[2].outcome.returned
    /\ parsed[1].outcome.recipe.id # parsed[2].outcome.recipe.id
    /\ parsed[1].outcome.recipe.title = parsed[2].outcome.recipe.title

\* The document passes the parser's explicit checks: required fields present,
\* every ingredient a mapping with name and quantity, instructions a list of
\* strings, a valid difficulty, numbers that int() accepts.
PassesFormatChecks(document) ==
    /\ document.t = "dict"
    /\ MissingFields(document) = <<>>
    /\ document.v.ingredients.t = "list"
    /\ \A i \in DOMAIN document.v.ingredients.v :
          LET ing_data == document.v.ingredients.v[i] IN
          /\ ing_data.t = "dict"
          /\ "name" \in DOMAIN ing_data.v
          /\ "quantity" \in DOMAIN ing_data.v
    /\ document.v.instructions.t = "list"
    /\ \A i \in DOMAIN document.v.instructions.v : IsStr(document.v.instructions.v[i])
    /\ IsStr(document.v.difficulty)
    /\ LowerWord(document.v.difficulty.v) \in {"easy", "medium", "hard"}
    /\ IntOf(document.v.cooking_time_minutes).ok
    /\ IntOf(document.v.servings).ok

\* A field the models declare as a string holds another kind of value.
FailsValidation(document) ==
    \/ ~IsStr(document.v.title)
    \/ ~IsStr(document.v.description)
    \/ \E i \in DOMAIN document.v.ingredients.v :
          LET ing_data == document.v.ingredients.v[i] IN
          ~IsStr(ing_data.v.name) \/ ~IsStr(ing_data.v.quantity)

\* C17: when the model output passes the explicit format checks but building
\* the Recipe fails validation, the parser raises a ValidationError, which is
\* not the ValueError of a format failure.
C17_ValidationFailureRaisesValidationError ==
    \A k \in DOMAIN parsed :
        ( /\ Loaded(k).ok
          /\ PassesFormatChecks(Loaded(k).data)
          /\ FailsValidation(Loaded(k).data) )
            => /\ ~parsed[k].outcome.returned
               /\ parsed[k].outcome.raised.type = "ValidationError"

(***************************************************************************)
(* generate_recipe and the generate route: claims.                         *)
(***************************************************************************)
\* generate_recipe has been called: it has built its prompt.
GenerateCalled == gen_pc \in {"invoking", "returned", "raised"} \/ prompt # <<>>

\* C18: generate_recipe called with an empty ingredient list fails with a
\* ValueError (InvalidArgument) and the model is never invoked.
C18_EmptyIngredientsNeverInvoke ==
    (GenerateCalled /\ gen_ingredients = <<>>)
        => /\ calls = <<>>
           /\ gen_pc # "returned"
           /\ gen_pc = "raised" => gen_raised.type = "ValueError"

\* C19: the generate route answers an invalid argument with a 4xx status, a
\* timeout with 504, a connection failure with 503, and a failure of the
\* parser (format or schema validation) or a generic invocation failure with
\* a 5xx status.
C19_StatusByErrorKind ==
    (caller = "route" /\ gen_pc = "responded" /\ gen_raised # NoError)
        => IF invoke_pc = "returned"
           THEN \* the parser raised: ResponseFormatError or SchemaValidationError
                http_status \in 500..599
           ELSE CASE gen_raised.type = "ValueError"      -> http_status \in 400..499
                  [] gen_raised.type = "TimeoutError"    -> http_status = 504
                  [] gen_raised.type = "ConnectionError" -> http_status = 503
                  [] OTHER                               -> http_status \in 500..599

(***************************************************************************)
(* The embedding cache: claims.                                            *)
(***************************************************************************)
\* The k-th call is a generate_embedding call that returned a vector.
EmbedSucceeded(k) == embeds[k].kind = "embed" /\ embeds[k].outcome \in {"hit", "miss"}

\* Between the calls i and j the cache was not cleared and the entry of call
\* i was not evicted.
EntryKept(i, j) ==
    \A k \in (i + 1)..(j - 1) :
        /\ embeds[k].kind # "clear"
        /\ embeds[k].evicted # CacheKey(embeds[i].instance, Strip(embeds[i].text))

\* How many of the first k calls invoked the encoder.
EncoderInvocations(k) ==
    Cardinality({ m \in 1..k : embeds[m].outcome \in {"miss", "RuntimeError"} })

\* C20: on one instance, once generate_embedding(t) has succeeded, a later
\* generate_embedding(t') with the same trimmed text returns an equal vector
\* and does not invoke the encoder, as long as the entry was not evicted and
\* the cache was not cleared in between.
C20_CachedEmbeddingReused ==
    \A i, j \in DOMAIN embeds :
        ( /\ i < j
          /\ EmbedSucceeded(i)
          /\ embeds[j].kind = "embed"
          /\ embeds[j].instance = embeds[i].instance
          /\ Strip(embeds[j].text) = Strip(embeds[i].text)
          /\ EntryKept(i, j) )
        => /\ embeds[j].outcome = "hit"
           /\ embeds[j].result = embeds[i].result
           /\ EncoderInvocations(j) = EncoderInvocations(j - 1)

\* A text with blanks around it is embedded, another call of another instance
\* comes between, and the trimmed text is then served from the cache.
C20_Witness ==
    /\ Len(embeds) = 3
    /\ embeds[1].instance = 1 /\ embeds[1].text = <<" ", "a", " ">>
    /\ embeds[1].outcome = "miss"
    /\ embeds[2].instance = 2 /\ embeds[2].text = <<"a">> /\ embeds[2].outcome = "miss"
    /\ embeds[3].instance = 1 /\ embeds[3].text = <<"a">> /\ embeds[3].outcome = "hit"
    /\ embeds[3].result = embeds[1].result
    /\ encode_calls = 2

(***************************************************************************)
(* The invoker under generate_recipe: claims.                              *)
(***************************************************************************)
\* generate_recipe has called _parse_recipe_response.
GenerateParsed == gen_pc \in {"returned", "raised", "responded"} /\ invoke_pc = "returned"

\* C21: when attempt k of _invoke_model_with_retry succeeds, the k attempts
\* before it failed with retryable errors, the success is the (k+1)-th and
\* last invocation, exactly k sleeps were made and none after the success,
\* the call returns that attempt's completion, and generate_recipe parses
\* exactly that text, once.
C21_SuccessAfterKRetries ==
    /\ \A i \in DOMAIN calls :
          calls[i] = "ok"
              => /\ i = Len(calls)
                 /\ i = attempt + 1
                 /\ attempt <= max_retries
                 /\ \A j \in 1..(i - 1) : calls[j] \in RetryableKinds
                 /\ Len(sleeps) = i - 1
                 /\ invoke_pc = "returned"
                 /\ raised = NoError
                 /\ response_text = last_call.msg[1]
    /\ invoke_pc = "returned" => (calls # <<>> /\ calls[Len(calls)] = "ok")
    /\ GenerateParsed
          => /\ Len(parsed) = 1
             /\ parsed[1].text = CompletionText(last_call.msg[1])
    /\ ~GenerateParsed => parsed = <<>>

C21_Witness ==
    /\ max_retries = 3
    /\ calls = <<"Timeout", "RateLimited", "ok">>
    /\ Len(sleeps) = 2
    /\ response_text = "text1"
    /\ gen_pc = "returned"
    /\ parsed[1].text = Fenced("json", <<"recipe">>)
    /\ parsed[1].outcome.returned

\* C22: generate_recipe only composes: it parses only after the invocation
\* returned a text, an exception of the invoker or of the parser is the
\* exception generate_recipe raises, and once the parser has been called no
\* further model invocation and no sleep takes place (a first-attempt
\* completion that fails to parse leaves exactly one invocation).
C22_GenerateIsPassThrough ==
    /\ [] ( /\ parsed # <<>>
               => /\ invoke_pc = "returned"
                  /\ gen_pc \in {"returned", "raised", "responded"}
                  /\ Len(parsed) = 1
                  /\ calls[Len(calls)] = "ok"
                  /\ Len(calls) = attempt + 1
                  /\ Len(sleeps) = attempt
            /\ (gen_pc = "raised" /\ invoke_pc = "raised")
               => (gen_raised = raised /\ parsed = <<>>)
            /\ (gen_pc = "raised" /\ invoke_pc = "returned")
               => (gen_raised = parsed[1].outcome.raised /\ ~parsed[1].outcome.returned)
            /\ gen_pc = "returned"
               => (gen_raised = NoError /\ parsed[1].outcome.returned) )
    /\ [][ parsed # <<>> => (calls' = calls /\ sleeps' = sleeps /\ parsed' = parsed) ]_vars

\* The first completion is not JSON: one invocation, no sleep, the parser's
\* ValueError is what generate_recipe raises.
C22_Witness ==
    /\ max_retries = 3
    /\ calls = <<"ok">>
    /\ sleeps = <<>>
    /\ response_text = "text2"
    /\ gen_pc = "raised"
    /\ gen_raised.type = "ValueError"
    /\ Len(parsed) = 1

(***************************************************************************)
(* The retry loop: termination and classification.                         *)
(***************************************************************************)
RetryDone == invoke_pc \in {"returned", "raised"}

\* C28: with max_retries >= 0, whatever the backend answers, the call ends by
\* returning or raising; it makes at most max_retries + 1 invocations and at
\* most max_retries sleeps, and the code after the loop is never reached.
C28_RetryLoopTerminates ==
    /\ [] ( max_retries >= 0
              => /\ attempt <= max_retries
                 /\ Len(calls) <= attempt + 1
                 /\ Len(calls) <= max_retries + 1
                 /\ Len(sleeps) <= max_retries
                 /\ ~ENABLED LoopFallthrough )
    /\ [][ max_retries >= 0 => ~LoopFallthrough ]_vars
    /\ (max_retries >= 0) => <>RetryDone

\* The whole budget is used: four invocations, three sleeps, then the raise
\* inside the loop.
C28_Witness ==
    /\ max_retries = 3
    /\ Len(calls) = 4
    /\ Len(sleeps) = 3
    /\ attempt = 3
    /\ invoke_pc = "raised"
    /\ raised = last_error

\* The message holds one of the keywords, in any letter case.
Mentions(msg, keywords) == \E kw \in keywords : Contains(kw, LowerStr(msg))

\* The classification the keyword precedence prescribes for a message.
KindByPrecedence(msg) ==
    CASE Mentions(msg, {"timeout", "timed out"})           -> "Timeout"
      [] Mentions(msg, {"connection", "network"})          -> "ConnectionFailure"
      [] Mentions(msg, {"rate limit", "throttl"})          -> "RateLimited"
      [] Mentions(msg, {"authentication", "unauthorized"}) -> "AuthFailure"
      [] OTHER                                             -> "InvocationFailure"

\* C29: the retry decision agrees with the keyword classification: a message
\* is classified by the first keyword group it mentions (timeout, connection,
\* rate limit, authentication, else generic), and the exception _invoke_model
\* raises for it is judged retryable exactly when the classification is
\* Timeout, ConnectionFailure or RateLimited; the loop then acts on that.
C29_RetryDecisionAgreesWithClassification ==
    /\ \A msg \in UpstreamMessages :
          /\ ErrorKind(msg) = KindByPrecedence(msg)
          /\ _is_retryable_error(ClassifyError(msg)) <=> (ErrorKind(msg) \in RetryableKinds)
    /\ (last_call # NoError /\ last_call.type = "raise")
          => /\ calls[Len(calls)] = KindByPrecedence(last_call.msg)
             /\ last_error = ClassifyError(last_call.msg)
             /\ calls[Len(calls)] \in NonRetryableKinds
                   => (invoke_pc = "raised" /\ raised = last_error)
             /\ (calls[Len(calls)] \in RetryableKinds /\ Len(calls) <= max_retries)
                   => (invoke_pc \in {"sleeping", "calling"} /\ Len(sleeps) = Len(calls))

\* A message that mentions both an authentication and a rate-limit keyword is
\* a rate limit, and the loop retries it.
C29_Witness ==
    /\ last_call = [type |-> "raise", msg |-> <<"Unauthorized", "throttling">>]
    /\ calls = <<"RateLimited">>
    /\ last_error.type = "RuntimeError"
    /\ invoke_pc = "sleeping"
    /\ Len(sleeps) = 1

(***************************************************************************)
(* The recipe matcher: early return, order, small recipes.                 *)
(***************************************************************************)
InventoryAbsentOrEmpty ==
    match_inventory = NoInventory \/ Len(match_inventory.items) = 0

\* C23: when get_inventory returns no inventory, or one with zero items, the
\* matcher returns two empty lists at once: list_recipes is not called and
\* nothing is raised.
C23_NoInventoryReturnsEmptyWithoutListing ==
    (match_pc # "idle" /\ InventoryAbsentOrEmpty)
        => /\ list_calls = 0
           /\ exact_matches = <<>>
           /\ partial_matches = <<>>
           /\ recipe_index = 0
           /\ match_pc \in {"start", "returned"}
           /\ match_pc = "start" => ENABLED MatchNoInventory

\* An inventory row without items, two recipes in the table: returned empty.
C23_Witness ==
    /\ match_inventory # NoInventory
    /\ match_inventory.items = <<>>
    /\ Len(all_recipes) = 2
    /\ match_pc = "returned"
    /\ list_calls = 0
    /\ exact_matches = <<>> /\ partial_matches = <<>>

\* sub is all with some elements left out, the others in their order.
IsSubsequence(sub, all) ==
    \E f \in [DOMAIN sub -> DOMAIN all] :
        /\ \A i, j \in DOMAIN sub : i < j => f[i] < f[j]
        /\ \A i \in DOMAIN sub : sub[i] = all[f[i]]

\* The recipe a partial match was built from.
RecipeOf(match) == [id |-> match.id, ingredients |-> match.ingredients]

\* C24: exact_matches and partial_matches each keep the recipes in the
\* order list_recipes returned them: each list is a subsequence of it.
C24_MatchesKeepListOrder ==
    /\ IsSubsequence(exact_matches, all_recipes)
    /\ IsSubsequence([i \in DOMAIN partial_matches |-> RecipeOf(partial_matches[i])],
                     all_recipes)

\* Two recipes of the same list, first and second as listed.
C24_Witness ==
    /\ match_pc = "returned"
    /\ Len(all_recipes) = 2
    /\ all_recipes[1].ingredients # all_recipes[2].ingredients
    /\ \/ exact_matches = all_recipes
       \/ /\ Len(partial_matches) = 2
          /\ partial_matches[1].id = 1
          /\ partial_matches[2].id = 2

\* n and m of a recipe: its distinct lower-cased names, and those of them
\* the inventory holds.
DistinctNames(recipe) == { LowerWord(recipe.ingredients[i]) : i \in DOMAIN recipe.ingredients }
HeldNames(recipe) ==
    { x \in DistinctNames(recipe) :
        \E i \in DOMAIN match_inventory.items :
            LowerWord(match_inventory.items[i].ingredient_name) = x }

IsPartialMatch(recipe) ==
    \E i \in DOMAIN partial_matches : partial_matches[i].id = recipe.id
IsExactMatch(recipe) ==
    \E i \in DOMAIN exact_matches : exact_matches[i].id = recipe.id

\* C30: a recipe is a partial match iff 4n <= 5m < 5n, so one with fewer than
\* five distinct lower-cased names never is: it is an exact match (m = n) or
\* in neither list; names that differ only by case count once in n.
C30_SmallRecipeNeverPartial ==
    \A k \in 1..recipe_index :
        LET recipe == all_recipes[k]
            n      == Cardinality(DistinctNames(recipe))
            m      == Cardinality(HeldNames(recipe))
        IN  /\ IsPartialMatch(recipe) <=> (4 * n <= 5 * m /\ 5 * m < 5 * n)
            /\ IsPartialMatch(recipe) => n >= 5
            /\ n <= 4 => /\ ~IsPartialMatch(recipe)
                         /\ IsExactMatch(recipe) <=> (m = n /\ n > 0)

\* Five names written, four distinct, three held: left out.  Five distinct,
\* four held: partial.
C30_Witness ==
    /\ match_pc = "returned"
    /\ Len(all_recipes) = 2
    /\ all_recipes[1].ingredients = <<"Tomato", "tomato", "onion", "garlic", "basil">>
    /\ all_recipes[2].ingredients = <<"tomato", "onion", "garlic", "basil", "oil">>
    /\ InventoryIngredients(match_inventory) = {"tomato", "onion", "garlic", "oil"}
    /\ exact_matches = <<>>
    /\ Len(partial_matches) = 1
    /\ partial_matches[1].id = 2

(***************************************************************************)
(* remove_item: claims.                                                    *)
(***************************************************************************)
\* The step in which task t's remove_item call ends.
RemoveEnds(t) == inv_pc[t] = "read" /\ op[t].kind = "remove" /\ inv_pc'[t] # "read"

\* There is no inventory, or no item of it has the name, ignoring case.
NameAbsent(inventory, ingredient_name) ==
    \/ inventory = NoInventory
    \/ \A i \in DOMAIN inventory.items :
          LowerWord(inventory.items[i].ingredient_name) # LowerWord(ingredient_name)

\* The items whose name differs from the given one, ignoring case, in order.
KeptItems(items, ingredient_name) ==
    SelectSeq(items, LAMBDA item :
                 LowerWord(item.ingredient_name) # LowerWord(ingredient_name))

\* C25: remove_item raises when get_inventory returned no inventory or no
\* item has the name ignoring case, and then save_inventory is not called:
\* the stored row (items and updated_at) is unchanged.  When it succeeds the
\* row written holds the items read without those of that name, the others
\* unchanged and in order, and a new updated_at.
C25_RemoveItemFailsOrFilters ==
    [][ \A t \in Tasks :
          RemoveEnds(t) =>
             IF NameAbsent(local[t], op[t].ingredient_name)
             THEN /\ RemoveItemRaises(t)
                  /\ inv_pc'[t] = "failed"
                  /\ stored' = stored
                  /\ saves' = saves
             ELSE \/ /\ inv_pc'[t] = "failed"
                     /\ stored' = stored
                     /\ saves' = saves
                  \/ /\ inv_pc'[t] = "done"
                     /\ stored'.items = KeptItems(local[t].items, op[t].ingredient_name)
                     /\ Len(stored'.items) < Len(local[t].items)
                     /\ stored'.updated_at = clock
                     /\ stored'.updated_at > local[t].updated_at
                     /\ saves' = Append(saves, [by |-> t, inventory |-> stored']) ]_vars

\* Task 1 removed "Tomato" from a row holding onion and tomato; task 2 then
\* asked for the same removal and failed, the row as task 1 left it.
C25_Witness ==
    /\ op[1] = [kind |-> "remove", ingredient_name |-> "Tomato", quantity |-> None]
    /\ op[2] = [kind |-> "remove", ingredient_name |-> "Tomato", quantity |-> None]
    /\ inv_pc[1] = "done"
    /\ inv_pc[2] = "failed"
    /\ local[2] = stored
    /\ stored = UserInventory(<<InventoryItem("onion", None, 0)>>, 2)
    /\ Len(saves) = 1

(***************************************************************************)
(* The embedding cache: bound and eviction.                                *)
(***************************************************************************)
CachedKeys(entries) == { entries[i].key : i \in DOMAIN entries }

\* The key call i of the history looked up.
KeyOf(i) == CacheKey(embeds[i].instance, Strip(embeds[i].text))

\* Call i used the entry of key: it stored it or it was served from it.
Uses(i, key) ==
    /\ embeds[i].kind = "embed"
    /\ embeds[i].outcome \in {"hit", "miss"}
    /\ KeyOf(i) = key

\* The last call that used the entry of key.
LastUse(key) ==
    CHOOSE i \in DOMAIN embeds :
        Uses(i, key) /\ \A j \in DOMAIN embeds : Uses(j, key) => j <= i

\* The cached key that was used least recently.
LeastRecentlyUsed ==
    CHOOSE key \in CachedKeys(cache) :
        \A other \in CachedKeys(cache) : LastUse(key) <= LastUse(other)

\* C27: the embedding cache never holds more than its maximum number of
\* entries; an entry leaves it only when the cache is full and a new text is
\* cached, and it is then the least recently used one, or when
\* clear_embedding_cache is called; after a clear, the first lookup of a text
\* invokes the encoder again.
C27_CacheBoundedLruEviction ==
    /\ [] ( /\ Len(cache) <= CacheMaxSize
            /\ \A i, j \in DOMAIN cache : cache[i].key = cache[j].key => i = j
            /\ \A j \in DOMAIN embeds :
                  (embeds[j].kind = "embed" /\ embeds[j].outcome = "hit")
                     => \E i \in 1..(j - 1) :
                           /\ embeds[i].kind = "embed" /\ embeds[i].outcome = "miss"
                           /\ KeyOf(i) = KeyOf(j)
                           /\ \A k \in i..j : embeds[k].kind # "clear" )
    /\ [][ LET dropped == CachedKeys(cache) \ CachedKeys(cache')
               event   == embeds'[Len(embeds')]
           IN  dropped # {} =>
                 \/ /\ event.kind = "clear"
                    /\ cache' = <<>>
                 \/ /\ event.kind = "embed"
                    /\ event.outcome = "miss"
                    /\ Len(cache) = CacheMaxSize
                    /\ Len(cache') = CacheMaxSize
                    /\ dropped = {LeastRecentlyUsed}
                    /\ event.evicted = LeastRecentlyUsed
                    /\ CachedKeys(cache') \ CachedKeys(cache)
                         = {CacheKey(event.instance, Strip(event.text))} ]_vars

\* a and b are cached, a is used again, c is cached: b is the entry dropped.
C27_Witness ==
    /\ Len(embeds) = 4
    /\ embeds[1].text = <<"a">> /\ embeds[1].instance = 1 /\ embeds[1].outcome = "miss"
    /\ embeds[2].text = <<"b">> /\ embeds[2].instance = 1 /\ embeds[2].outcome = "miss"
    /\ embeds[3].text = <<"a">> /\ embeds[3].instance = 1 /\ embeds[3].outcome = "hit"
    /\ embeds[4].text = <<"a">> /\ embeds[4].instance = 2 /\ embeds[4].outcome = "miss"
    /\ embeds[4].evicted = CacheKey(1, <<"b">>)
    /\ CachedKeys(cache) = {CacheKey(1, <<"a">>), CacheKey(2, <<"a">>)}

(***************************************************************************)
(* The search endpoint: claims.                                            *)
(***************************************************************************)
\* The ids of the first k search results, in ranking order.
ResultIdsUpTo(k) == [i \in 1..k |-> search_results[i].id]

\* Those of them the recipes table has a row for, in the same order.
FoundIds(k) == SelectSeq(ResultIdsUpTo(k), LAMBDA id : id \in recipe_table)

IdsOf(data) == [i \in DOMAIN data |-> data[i].id]

\* C26: the search endpoint returns the recipes in the ranking order of the
\* vector-search result ids: an id the storage has no recipe for is skipped
\* without error, the list returned is the subsequence of the ids found, in
\* order, and meta.count is its length.
C26_SearchKeepsRankingOrder ==
    /\ search_pc = "loop"
          => /\ IdsOf(recipes) = FoundIds(search_index)
             /\ search_raised = NoError
    /\ (search_pc = "responded" /\ search_raised = NoError)
          => /\ search_response.status_code = 200
             /\ IdsOf(search_response.data) = FoundIds(Len(search_results))
             /\ search_response.count = Len(search_response.data)
             /\ get_recipe_calls = SelectSeq(ResultIdsUpTo(Len(search_results)),
                                             LAMBDA id : id # "")
    /\ (search_pc = "responded" /\ search_raised # NoError)
          => /\ search_response.status_code \in {400, 500}
             /\ search_response.data = <<>>

\* Three results, the second without a row: the first and the third are
\* returned, in that order, count 2.
C26_Witness ==
    /\ ResultIdsUpTo(Len(search_results)) = <<"recipe-1", "recipe-2", "recipe-3">>
    /\ recipe_table = {"recipe-1", "recipe-3"}
    /\ search_pc = "responded"
    /\ search_response = [status_code |-> 200,
                          data |-> <<[id |-> "recipe-1"], [id |-> "recipe-3"]>>,
                          count |-> 2]
    /\ Len(get_recipe_calls) = 3

====
